---- MODULE Spec2Model ----
(***************************************************************************)
(* Model of the OQ-SRTK core numerical routines:                           *)
(*   openquake/srtk/soil/average.py          (depth averaging, kappa)      *)
(*   openquake/srtk/response/amplification.py (impedance amplification)    *)
(*                                                                         *)
(* Numbers are exact rationals [n |-> numerator, d |-> denominator] in     *)
(* lowest terms with d > 0; d = 0 stands for the non-finite outcome of a   *)
(* division by zero (numpy's inf/nan).  IEEE rounding is not modelled.     *)
(***************************************************************************)
EXTENDS Integers, Sequences, FiniteSets, TLC

VARIABLES call, thickness, soil_param, s_velocity, s_quality, depth, result,
          top_vs, top_dn, ref_vs, ref_dn, inc_ang, imp_amp,
          tf_freq, tf_hl, tf_vs, tf_dn, tf_qs, tf_depth, tf_iA, tf_AmpVec, tf_DisMat, tf_dis,
          tf_writes, tf_lookup, elastic, complex, shtf,
          frequency, qwl_nf, qwl_ubnd, qwl_depth, qwl_velocity, qwl_misfit,
          s_density, qwl_density, qwl_raised,
          geo, geo_pre, layer_call,
          site_model, site_pre, site_freq, site_mean, site_call,
          heap, heap_pre, mem_args, mem_ret, mem_call

vars == <<call, thickness, soil_param, s_velocity, s_quality, depth, result,
          top_vs, top_dn, ref_vs, ref_dn, inc_ang, imp_amp,
          tf_freq, tf_hl, tf_vs, tf_dn, tf_qs, tf_depth, tf_iA, tf_AmpVec, tf_DisMat, tf_dis,
          tf_writes, tf_lookup, elastic, complex, shtf,
          frequency, qwl_nf, qwl_ubnd, qwl_depth, qwl_velocity, qwl_misfit,
          s_density, qwl_density, qwl_raised,
          geo, geo_pre, layer_call,
          site_model, site_pre, site_freq, site_mean, site_call,
          heap, heap_pre, mem_args, mem_ret, mem_call>>

avgVars == <<thickness, soil_param, s_velocity, s_quality, depth, result>>
ampVars == <<top_vs, top_dn, ref_vs, ref_dn, inc_ang, imp_amp>>
tfVars == <<tf_freq, tf_hl, tf_vs, tf_dn, tf_qs, tf_depth, tf_iA, tf_AmpVec, tf_DisMat, tf_dis,
            tf_writes, tf_lookup, elastic, complex, shtf>>
qwlVars == <<frequency, qwl_nf, qwl_ubnd, qwl_depth, qwl_velocity, qwl_misfit,
             s_density, qwl_density, qwl_raised>>
layerVars == <<geo, geo_pre, layer_call>>
siteVars == <<site_model, site_pre, site_freq, site_mean, site_call>>
memVars == <<heap, heap_pre, mem_args, mem_ret, mem_call>>
objVars == <<layerVars, siteVars, memVars>>

----------------------------------------------------------------------------
(* Bounds of the explored input space *)

MaxLayers == 3

MaxTop == 3

(* layers of a transfer-function profile, and length of its frequency axis *)
MaxTfLayers == 2

MaxFreq == 2

(* layers of a profile whose propagation angles are computed *)
MaxAngLayers == 3

(* layers of a quarter-wavelength profile, length of its frequency axis,   *)
(* and deepest averaging depth looked at                                   *)
MaxQwlLayers == 2

MaxQwlFreq == 2

MaxQwlDepth == 60

(* layers and deepest target of the profiles of the depth lookup *)
MaxLookupLayers == 3

MaxLookupDepth == 30

(* layers of a model built with add_layer *)
MaxModelLayers == 2

(* models of a site *)
MaxModels == 3

(* calls of the methods of a site in one run *)
MaxSiteCalls == 2

----------------------------------------------------------------------------
(* Exact rational arithmetic standing for Python/numpy float arithmetic *)

Abs(x) == IF x < 0 THEN -x ELSE x

Min(a, b) == IF a < b THEN a ELSE b

Max(a, b) == IF a > b THEN a ELSE b

RECURSIVE GCD(_, _)
GCD(a, b) == IF b = 0 THEN a ELSE GCD(b, a % b)

Undef == [n |-> 0, d |-> 0]

Rat(n, d) ==
    IF d = 0 THEN Undef
    ELSE LET g == GCD(Abs(n), Abs(d))
             s == IF d < 0 THEN -1 ELSE 1
         IN  [n |-> s * (n \div g), d |-> Abs(d) \div g]

Num(x) == [n |-> x, d |-> 1]

Zero == Num(0)

One == Num(1)

IsFinite(a) == a.d # 0

RAdd(a, b) ==
    IF a.d = 0 \/ b.d = 0 THEN Undef
    ELSE LET g == GCD(a.d, b.d)
             l == (a.d \div g) * b.d
         IN  Rat(a.n * (l \div a.d) + b.n * (l \div b.d), l)

RMul(a, b) ==
    IF a.d = 0 \/ b.d = 0 THEN Undef
    ELSE LET g1 == GCD(Abs(a.n), b.d)
             g2 == GCD(Abs(b.n), a.d)
         IN  Rat((a.n \div g1) * (b.n \div g2), (a.d \div g2) * (b.d \div g1))

RDiv(a, b) ==
    IF a.d = 0 \/ b.d = 0 \/ b.n = 0 THEN Undef
    ELSE RMul(a, Rat(b.d, b.n))

RLeq(a, b) == a.n * b.d <= b.n * a.d

(* |a - b| <= tol, for finite a, b, tol *)
Within(a, b, tol) ==
    /\ IsFinite(a)
    /\ RLeq(RAdd(a, RMul(Num(-1), b)), tol)
    /\ RLeq(RAdd(b, RMul(Num(-1), a)), tol)

RECURSIVE SumSeq(_)
SumSeq(s) == IF s = <<>> THEN 0 ELSE s[1] + SumSeq(Tail(s))

(* thickness[:-1] *)
AllButLast(s) == IF Len(s) = 0 THEN <<>> ELSE SubSeq(s, 1, Len(s) - 1)

(* s[-1] *)
Last(s) == s[Len(s)]

----------------------------------------------------------------------------
(* soil/average.py *)

(* Variant of the loop in which the layer straddling the depth is added    *)
(* with its whole thickness.                                               *)
RECURSIVE dwa_loop_whole_layer(_, _, _, _, _, _)
dwa_loop_whole_layer(hl, sp, z, i, mean_param, total_depth) ==
    IF i > Min(Len(hl), Len(sp)) - 1
    THEN [mean_param |-> mean_param, total_depth |-> total_depth]
    ELSE IF hl[i] + total_depth < z
         THEN dwa_loop_whole_layer(hl, sp, z, i + 1,
                       RAdd(mean_param, RDiv(RMul(Num(hl[i]), sp[i]), Num(z))),
                       total_depth + hl[i])
         ELSE [mean_param |-> RAdd(mean_param,
                                   RDiv(RMul(Num(hl[i]), sp[i]), Num(z))),
               total_depth |-> total_depth]

(* The for loop of depth_weighted_average over zip(thickness[:-1],         *)
(* soil_param[:-1]), entered at pair i with the accumulators so far.       *)
RECURSIVE dwa_loop(_, _, _, _, _, _)
dwa_loop(hl, sp, z, i, mean_param, total_depth) ==
    IF i > Min(Len(hl), Len(sp)) - 1
    THEN [mean_param |-> mean_param, total_depth |-> total_depth]
    ELSE IF hl[i] + total_depth < z
         THEN dwa_loop(hl, sp, z, i + 1,
                       RAdd(mean_param, RDiv(RMul(Num(hl[i]), sp[i]), Num(z))),
                       total_depth + hl[i])
         ELSE [mean_param |-> RAdd(mean_param,
                                   RDiv(RMul(Num(z - total_depth), sp[i]), Num(z))),
               total_depth |-> total_depth]

(* Variant that adds the half-space term without the exhaustion check. *)
depth_weighted_average_always_halfspace(hl, sp, z) ==
    LET lp == dwa_loop(hl, sp, z, 1, Zero, 0)
    IN  RAdd(lp.mean_param,
             RDiv(RMul(Num(z - lp.total_depth), Last(sp)), Num(z)))

(* Variant whose exhaustion check sums every thickness, the last included. *)
depth_weighted_average_sum_all(hl, sp, z) ==
    LET lp == dwa_loop(hl, sp, z, 1, Zero, 0)
    IN  IF lp.total_depth = SumSeq(hl)
        THEN RAdd(lp.mean_param,
                  RDiv(RMul(Num(z - lp.total_depth), Last(sp)), Num(z)))
        ELSE lp.mean_param

(* Variant without the check for the half-space of lines 63-65. *)
depth_weighted_average_no_halfspace(hl, sp, z) ==
    dwa_loop(hl, sp, z, 1, Zero, 0).mean_param

depth_weighted_average(hl, sp, z) ==
    LET lp == dwa_loop(hl, sp, z, 1, Zero, 0)
    IN  IF lp.total_depth = SumSeq(AllButLast(hl))
        THEN RAdd(lp.mean_param,
                  RDiv(RMul(Num(z - lp.total_depth), Last(sp)), Num(z)))
        ELSE lp.mean_param

(* slowness = 1./s_velocity, elementwise *)
Slowness(vs) == [i \in 1..Len(vs) |-> RDiv(One, Num(vs[i]))]

DefaultVsDepth == 30

(* Variant that averages the velocity itself (arithmetic mean). *)
traveltime_average_velocity_arithmetic(hl, vs, z) ==
    depth_weighted_average(hl, [i \in 1..Len(vs) |-> Num(vs[i])], z)

traveltime_average_velocity(hl, vs, z) ==
    RDiv(One, depth_weighted_average(hl, Slowness(vs), z))

(* The depth argument is <<>> for the default [] and <<z>> for a number z; *)
(* "not depth" is true of the empty list and of the number 0.              *)
NoDepth == <<>>

NotDepth(dp) == dp = <<>> \/ dp[1] = 0

KappaDepth(hl, dp) == IF NotDepth(dp) THEN SumSeq(hl) ELSE dp[1]

(* Variant without the parentheses: depth/s_velocity*s_quality. *)
LayerKappa_unparenthesised(vs, qs, z) ==
    [i \in 1..Min(Len(vs), Len(qs)) |->
        RMul(RDiv(Num(z), Num(vs[i])), Num(qs[i]))]

(* layer_kappa = depth/(s_velocity*s_quality), elementwise *)
LayerKappa(vs, qs, z) ==
    [i \in 1..Min(Len(vs), Len(qs)) |-> RDiv(Num(z), Num(vs[i] * qs[i]))]

compute_site_kappa(hl, vs, qs, dp) ==
    LET z == KappaDepth(hl, dp)
    IN  depth_weighted_average(hl, LayerKappa(vs, qs, z), z)

----------------------------------------------------------------------------
(* response/amplification.py: impedance_amplification                      *)
(*                                                                         *)
(* An argument is a scalar or an array: [arr |-> is it an array, v |-> its *)
(* elements]; the default [] of ref_vs and ref_dn is the empty array.      *)
(* The amplification sqrt(q) * sqrt(c) is carried by its two radicands:    *)
(* sq = q, the impedance ratio, and c4 = c^2, the squared ratio of the     *)
(* cosines, so that its fourth power is sq^2 * c4.                         *)

Scalar(x) == [arr |-> FALSE, v |-> <<x>>]

Array(s) == [arr |-> TRUE, v |-> s]

NoRef == Array(<<>>)

np_sum(x) == SumSeq(x.v)

np_size(x) == Len(x.v)

(* Variant that takes the last element for every position. *)
Elem_last(x, k) == x.v[Len(x.v)]

(* numpy broadcasting of a scalar or a one-element array against arrays *)
Elem(x, k) == IF Len(x.v) = 1 THEN x.v[1] ELSE x.v[k]

(* Variant that defaults to the first element of the top array. *)
DefaultRef_first(ref, top) ==
    IF np_sum(ref) = 0
    THEN IF np_size(top) > 1 THEN Scalar(top.v[1]) ELSE top
    ELSE ref

(* "Setting the reference, if not provided" *)
DefaultRef(ref, top) ==
    IF np_sum(ref) = 0
    THEN IF np_size(top) > 1 THEN Scalar(Last(top.v)) ELSE top
    ELSE ref

(* sin(inc_ang * pi/180)^2 for the angles of the input space *)
Sin2Deg(a) ==
    CASE a = 0  -> Zero
      [] a = 30 -> Rat(1, 4)
      [] a = 45 -> Rat(1, 2)
      [] a = 60 -> Rat(3, 4)

Cos2Deg(a) == RAdd(One, RMul(Num(-1), Sin2Deg(a)))

(* Variant with the ratio upside down. *)
ImpRatio_inverted(tvs, tdn, rvs, rdn) == RDiv(Num(tdn * tvs), Num(rdn * rvs))

(* (ref_dn*ref_vs)/(top_dn*top_vs) *)
ImpRatio(tvs, tdn, rvs, rdn) == RDiv(Num(rdn * rvs), Num(tdn * tvs))

(* Variant that leaves out the refracted angle: cos(inc_ang)^2. *)
ObliqueCorrection_no_refraction(tvs, rvs, ang) == Cos2Deg(ang)

(* (cos(inc_ang)/cos(eff_ang))^2 with eff_ang = arcsin((top_vs/ref_vs) *   *)
(* sin(inc_ang)); arcsin of a value above 1 is nan.                        *)
ObliqueCorrection(tvs, rvs, ang) ==
    LET r  == RDiv(Num(tvs), Num(rvs))
        s2 == RMul(RMul(r, r), Sin2Deg(ang))
    IN  IF ~IsFinite(s2) \/ ~RLeq(s2, One) THEN Undef
        ELSE RDiv(Cos2Deg(ang), RAdd(One, RMul(Num(-1), s2)))

ImpElem(tvs, tdn, rvs, rdn, ang) ==
    [sq |-> ImpRatio(tvs, tdn, rvs, rdn),
     c4 |-> IF ang > 0 THEN ObliqueCorrection(tvs, rvs, ang) ELSE One]

impedance_amplification(tvs, tdn, rvs0, rdn0, ang) ==
    LET rvs == DefaultRef(rvs0, tvs)
        rdn == DefaultRef(rdn0, tdn)
        n   == Max(Max(np_size(tvs), np_size(tdn)),
                   Max(np_size(rvs), np_size(rdn)))
    IN  [arr |-> tvs.arr \/ tdn.arr \/ rvs.arr \/ rdn.arr,
         v   |-> [k \in 1..n |-> ImpElem(Elem(tvs, k), Elem(tdn, k),
                                         Elem(rvs, k), Elem(rdn, k), ang)]]

----------------------------------------------------------------------------
(* average.py: quarter_wavelength_velocity and _qwl_fit_func.              *)

RAbs(a) == IF RLeq(Zero, a) THEN a ELSE RMul(Num(-1), a)

RECURSIVE RMaxSeq(_)
RMaxSeq(s) ==
    IF Len(s) = 1 THEN s[1]
    ELSE LET m == RMaxSeq(Tail(s))
         IN  IF RLeq(m, s[1]) THEN s[1] ELSE m

RECURSIVE RMinSeq(_)
RMinSeq(s) ==
    IF Len(s) = 1 THEN s[1]
    ELSE LET m == RMinSeq(Tail(s))
         IN  IF RLeq(s[1], m) THEN s[1] ELSE m

(* line 172 with numpy.min *)
qwl_upper_bound_min(slowness, f) ==
    RMinSeq([i \in 1..Len(slowness) |->
                RDiv(One, RMul(Num(4 * f), slowness[i]))])

(* line 172: ubnd = numpy.max(1./(4.*frequency[nf]*slowness)) *)
qwl_upper_bound(slowness, f) ==
    RMaxSeq([i \in 1..Len(slowness) |->
                RDiv(One, RMul(Num(4 * f), slowness[i]))])

(* _qwl_fit_func(search_depth, thickness, slowness, frequency) *)
qwl_fit_func(search_depth, hl, slowness, f) ==
    LET qwl_slowness == depth_weighted_average(hl, slowness, search_depth)
    IN  RAbs(RAdd(Num(search_depth),
                  RMul(Num(-1), RDiv(One, RMul(Num(4 * f), qwl_slowness)))))

(* the search depths followed in [0, ubnd]: the whole depths 1, the middle *)
(* and the largest; scipy's fminbound evaluates the misfit inside the      *)
(* bracket and returns a point of it                                       *)
SearchDepths(ub) ==
    LET top == ub.n \div ub.d
    IN  { z \in {1, (top + 1) \div 2, top} : z >= 1 }

NoError == ""

(* line 178: scipy.optimize.fminbound(_qwl_fit_func, 0., ubnd, args).  It  *)
(* raises ValueError when the lower bound exceeds the upper one; for an    *)
(* upper bound that is not finite it raises ValueError or returns a depth  *)
(* that is not finite, depending on the release of scipy.                  *)
fminbound(ub) ==
    IF IsFinite(ub)
    THEN IF RLeq(Zero, ub)
         THEN { [raised |-> NoError, x |-> Num(z)] : z \in SearchDepths(ub) }
         ELSE { [raised |-> "ValueError", x |-> Undef] }
    ELSE { [raised |-> "ValueError", x |-> Undef],
           [raised |-> NoError, x |-> Undef] }

(* lines 181-183: 1./depth_weighted_average(thickness, slowness, depth);   *)
(* at a depth that is not finite the average is nan                        *)
qwl_velocity_at(hl, slowness, x) ==
    IF IsFinite(x)
    THEN RDiv(One, depth_weighted_average(hl, slowness, x.n))
    ELSE Undef

(* the misfit the search reports for the depth it returns *)
qwl_misfit_at(hl, slowness, f, x) ==
    IF IsFinite(x) THEN qwl_fit_func(x.n, hl, slowness, f) ELSE Undef

(* quarter_wavelength_average: the depth-weighted average density at the   *)
(* quarter-wavelength depth                                                *)
qwl_density_at(hl, dn, x) ==
    IF IsFinite(x)
    THEN depth_weighted_average(hl, [i \in 1..Len(dn) |-> Num(dn[i])], x.n)
    ELSE Undef

----------------------------------------------------------------------------
(* Complex numbers with rational parts, standing for numpy complex128.     *)

Cx(re, im) == [re |-> re, im |-> im]

CNum(x) == Cx(Num(x), Zero)

CZero == CNum(0)

COne == CNum(1)

CNaN == Cx(Undef, Undef)

CIsFinite(a) == IsFinite(a.re) /\ IsFinite(a.im)

RNeg(a) == RMul(Num(-1), a)

RSub(a, b) == RAdd(a, RNeg(b))

CAdd(a, b) == Cx(RAdd(a.re, b.re), RAdd(a.im, b.im))

CNeg(a) == Cx(RNeg(a.re), RNeg(a.im))

CSub(a, b) == CAdd(a, CNeg(b))

CMul(a, b) ==
    Cx(RSub(RMul(a.re, b.re), RMul(a.im, b.im)),
       RAdd(RMul(a.re, b.im), RMul(a.im, b.re)))

(* |a|^2 *)
CAbs2(a) == RAdd(RMul(a.re, a.re), RMul(a.im, a.im))

CDiv(a, b) ==
    LET m == CAbs2(b)
    IN  Cx(RDiv(RAdd(RMul(a.re, b.re), RMul(a.im, b.im)), m),
           RDiv(RSub(RMul(a.im, b.re), RMul(a.re, b.im)), m))

(* numpy.linalg.solve: exact elimination on the augmented matrix A of an   *)
(* n x n system, from column k on; a column without a non-zero pivot means *)
(* the matrix is singular (LinAlgError).                                   *)
(* numpy.array: the elements evaluated once and stored *)
np_array(s) == s \o <<>>

(* An assignment name = value followed by the statements Body that read    *)
(* the name: the value is computed once, as the assignment computes it     *)
With(value, Body(_)) == Body(value)

RECURSIVE GaussJordan(_, _, _)
GaussJordan(A, n, k) ==
    IF k > n
    THEN [singular |-> FALSE, x |-> np_array([r \in 1..n |-> A[r][n + 1]])]
    ELSE LET P == {r \in k..n : A[r][k] # CZero}
         IN  IF P = {}
             THEN [singular |-> TRUE, x |-> <<>>]
             ELSE With(CHOOSE r \in P : \A q \in P : r <= q, LAMBDA p :
                  With(np_array([c \in 1..(n + 1) |->
                          IF A[p][c] = CZero /\ CIsFinite(A[p][k])
                          THEN CZero ELSE CDiv(A[p][c], A[p][k])]),
                       LAMBDA rowk :
                  GaussJordan(
                      np_array([r \in 1..n |->
                          IF r = k THEN rowk
                          ELSE With(IF r = p THEN A[k] ELSE A[r], LAMBDA src :
                               IF src[k] = CZero THEN src
                               ELSE np_array([c \in 1..(n + 1) |->
                                      IF rowk[c] = CZero /\ CIsFinite(src[k])
                                      THEN src[c]
                                      ELSE CSub(src[c],
                                                CMul(src[k], rowk[c]))]))]),
                      n, k + 1)))

linalg_solve(M, b) ==
    LET n == Len(b)
    IN  GaussJordan(np_array([r \in 1..n |-> np_array([c \in 1..(n + 1) |->
                        IF c <= n THEN M[r][c] ELSE b[r]])]), n, 1)

----------------------------------------------------------------------------
(* amplification.py: sh_transfer_function and interface_depth.             *)

(* qs=None *)
NoQs == <<>>

(* An angle n * unit, unit "1" (radians) or "pi/180" (degrees converted to *)
(* radians); pi is irrational, so for integer n two angles are the same    *)
(* number exactly when both are zero or unit and n agree.                  *)
Ang(n, unit) == [n |-> n, unit |-> IF n = 0 THEN "1" ELSE unit]

(* numpy.sin of an angle in radians, kept symbolic *)
np_sin(a) == [sin |-> a]

(* interface_depth: sum(hl[:i]) for i in range(len(hl)), summing as far as *)
(* the layer itself                                                        *)
interface_depth_inclusive(hl) ==
    np_array([i \in 1..Len(hl) |-> SumSeq(SubSeq(hl, 1, i))])

(* interface_depth: sum(hl[:i]) for i in range(len(hl)) *)
interface_depth(hl) ==
    np_array([i \in 1..Len(hl) |-> SumSeq(SubSeq(hl, 1, i - 1))])

(* lines 159-164: a scalar depth below zero stands for all the interfaces, *)
(* any other scalar becomes a one-element array                            *)
TargetDepths(dp, bounds) ==
    IF dp.arr THEN dp.v
    ELSE IF dp.v[1] < 0 THEN bounds ELSE <<dp.v[1]>>

(* lines 148-150: vs *= (2 qs j)/(2 qs j - 1) when qs is given *)
ComplexVs(vs, qs) ==
    np_array([l \in 1..Len(vs) |->
        IF qs = NoQs THEN CNum(vs[l])
        ELSE CMul(CNum(vs[l]),
                  CDiv(Cx(Zero, Num(2 * qs[l])),
                       Cx(Num(-1), Num(2 * qs[l]))))])

(* lines 169-179: iA = solve(iM, iD) with iD = (sin(inc_ang), 0, ..); the  *)
(* system is linear, so iA[l] = coef[l] * sin(inc_ang) with coef the       *)
(* solution for the unit right-hand side                                   *)
PropagationSines(cvs, inc) ==
    LET lnum == Len(cvs)
        iM   == np_array([r \in 1..lnum |-> np_array([c \in 1..lnum |->
                   IF r = 1 THEN (IF c = lnum THEN COne ELSE CZero)
                   ELSE IF c = r - 1 THEN CDiv(COne, cvs[r - 1])
                   ELSE IF c = r THEN CNeg(CDiv(COne, cvs[r]))
                   ELSE CZero])])
        iD   == np_array([r \in 1..lnum |-> IF r = 1 THEN COne ELSE CZero])
    IN  With(linalg_solve(iM, iD), LAMBDA sol :
             np_array([l \in 1..lnum |->
                 [coef |-> sol.x[l], of |-> np_sin(Ang(inc, "1"))]]))

SineIsZero(a) == a.coef = CZero \/ a.of.sin.n = 0

(* cos(arcsin(a)); 1 where the sine is zero *)
CosArcsin(a) == CASE SineIsZero(a) -> COne

(* i^q *)
IPow(q) ==
    CASE q % 4 = 0 -> COne
      [] q % 4 = 1 -> Cx(Zero, One)
      [] q % 4 = 2 -> CNeg(COne)
      [] q % 4 = 3 -> Cx(Zero, Num(-1))

(* exp(sgn * 1j * angf * ns * h) with angf = 2 pi f: the phase is          *)
(* 4 f ns h quarter turns                                                  *)
PhaseFactor(sgn, f, nsl, h) ==
    With(CMul(CNum(4 * f * h), nsl), LAMBDA T :
         CASE ~CIsFinite(T) -> CNaN
           [] CIsFinite(T) /\ T.im = Zero /\ T.re.d = 1 -> IPow(sgn * T.re.n))

(* lines 204-205 read InpVec[0] = 1. *)
InpVec_first(lnum) == np_array([k \in 1..(2 * lnum) |-> IF k = 1 THEN COne ELSE CZero])

(* lines 200-201: InpVec[-1] = 1. *)
InpVec(lnum) ==
    np_array([k \in 1..(2 * lnum) |-> IF k = 2 * lnum THEN COne ELSE CZero])

(* lines 216-217 with LayMat[0, 1] = 1. *)
FreeSurface_sum(c0) == COne

(* lines 216-217: LayMat[0, 0] = 1. and LayMat[0, 1] = -1. *)
FreeSurface(c0) == IF c0 = 0 THEN COne ELSE CNeg(COne)

(* lines 213-242: LayMat *= 0. and the rows of one frequency *)
LayMatOf(prev, f, hl, mu, ns) ==
    LET lnum == Len(hl)
    IN  np_array([r \in 1..(2 * lnum) |-> np_array([c \in 1..(2 * lnum) |->
          LET r0 == r - 1
              c0 == c - 1
              nl == IF r0 % 2 = 1 THEN (r0 - 1) \div 2 ELSE (r0 - 2) \div 2
              k  == c0 - 2 * nl
              expDSA == PhaseFactor(1, f, ns[nl + 1], hl[nl + 1])
              expUSA == PhaseFactor(-1, f, ns[nl + 1], hl[nl + 1])
              zeroed == CMul(prev[r][c], CZero)
          IN  IF r0 = 0 /\ c0 \in {0, 1} THEN FreeSurface(c0)
              ELSE IF r0 = 2 * lnum - 1 /\ c0 = 2 * lnum - 1 THEN COne
              ELSE IF r0 = 0 \/ r0 = 2 * lnum - 1 \/ k \notin 0..3 THEN zeroed
              ELSE IF r0 % 2 = 1
                   THEN CASE k = 0 -> expDSA
                          [] k = 1 -> expUSA
                          [] k \in {2, 3} -> CNeg(COne)
                   ELSE CASE k = 0 -> CMul(CMul(mu[nl + 1], ns[nl + 1]), expDSA)
                          [] k = 1 -> CNeg(CMul(CMul(mu[nl + 1], ns[nl + 1]),
                                                expUSA))
                          [] k = 2 -> CNeg(CMul(mu[nl + 2], ns[nl + 2]))
                          [] k = 3 -> CMul(mu[nl + 2], ns[nl + 2])])])

AllNaN(n) == np_array([k \in 1..n |-> CNaN])

(* lines 245-248 with the handler writing zeros *)
SolveAmplitudes_zeros(AmpVec, LayMat, b) ==
    With(linalg_solve(LayMat, b), LAMBDA sol :
         IF sol.singular THEN np_array([k \in 1..Len(b) |-> CZero])
         ELSE sol.x)

(* lines 245-248: try: AmpVec = solve(LayMat, InpVec)                      *)
(*                except: AmpVec[:] = nan                                  *)
SolveAmplitudes(AmpVec, LayMat, b) ==
    With(linalg_solve(LayMat, b), LAMBDA sol :
         IF sol.singular THEN AllNaN(Len(AmpVec)) ELSE sol.x)

(* the index of the first True of map(lambda x: x >= d, bounds) *)
FirstAtLeast(bounds, d) ==
    CHOOSE i \in 1..Len(bounds) :
        /\ bounds[i] >= d
        /\ \A j \in 1..(i - 1) : ~(bounds[j] >= d)

(* lines 254-263 with the layer below the bracket *)
LayerLookup_below(hl, bounds, d) ==
    IF d <= hl[1] THEN [nl |-> 0, dh |-> d]
    ELSE IF d > Last(bounds)
         THEN [nl |-> Len(hl) - 1, dh |-> d - Last(bounds)]
         ELSE LET nl == FirstAtLeast(bounds, d) - 1
              IN  [nl |-> nl, dh |-> d - bounds[nl]]

(* lines 254-263: the layer (0-based nl) a depth falls in and the depth    *)
(* below that layer's top                                                  *)
LayerLookup(hl, bounds, d) ==
    IF d <= hl[1] THEN [nl |-> 0, dh |-> d]
    ELSE IF d > Last(bounds)
         THEN [nl |-> Len(hl) - 1, dh |-> d - Last(bounds)]
         ELSE LET nl == FirstAtLeast(bounds, d) - 2
              IN  [nl |-> nl, dh |-> d - bounds[nl + 1]]

(* lines 155-164 and 254-263: for every row of the result, its depth and   *)
(* the layer and local depth the lookup gives it                           *)
DepthLookups(hl, depth_arg) ==
    LET bounds == interface_depth(hl)
        dp     == TargetDepths(depth_arg, bounds)
    IN  np_array([nz \in 1..Len(dp) |->
            LET at == LayerLookup(hl, bounds, dp[nz])
            IN  [depth |-> dp[nz], nl |-> at.nl, dh |-> at.dh]])

(* lines 266-270: disDSA + disUSA at one depth *)
Displacement(AmpVec, f, hl, ns, bounds, d) ==
    With(LayerLookup(hl, bounds, d), LAMBDA at :
         LET expDSA == PhaseFactor(1, f, ns[at.nl + 1], at.dh)
             expUSA == PhaseFactor(-1, f, ns[at.nl + 1], at.dh)
         IN  CAdd(CMul(AmpVec[2 * at.nl + 1], expDSA),
                  CMul(AmpVec[2 * at.nl + 2], expUSA)))

(* numpy.abs of a complex number, carried by its square *)
np_abs(c) == [abs2 |-> CAbs2(c)]

(* line 272 as DisMat[nz, :nf+1] = ...: the columns up to nf are written *)
StoreAt_upto(old, k, nf, new) == IF k <= nf THEN new ELSE old

(* line 272: DisMat[nz, nf] = ...: column k of a row after the assignment  *)
(* to column nf                                                            *)
StoreAt(old, k, nf, new) == IF k = nf THEN new ELSE old

(* lines 210-272: the loop over frequencies, from index nf on; st holds    *)
(* the buffers LayMat, AmpVec and DisMat, and dis, the displacements whose *)
(* magnitudes line 272 stores, and writes, the number of times line 272    *)
(* has assigned each cell                                                  *)
RECURSIVE FrequencyLoop(_, _, _)
FrequencyLoop(nf, st, p) ==
    IF nf > Len(p.freq) THEN st
    ELSE With(LayMatOf(st.LayMat, p.freq[nf], p.hl, p.mu, p.ns),
              LAMBDA LayMat :
         With(SolveAmplitudes(st.AmpVec, LayMat, InpVec(Len(p.hl))),
              LAMBDA AmpVec :
         With(np_array([nz \in 1..Len(p.depth) |->
                  Displacement(AmpVec, p.freq[nf], p.hl, p.ns,
                               p.bounds, p.depth[nz])]),
              LAMBDA col :
         FrequencyLoop(nf + 1,
             [LayMat |-> LayMat,
              AmpVec |-> AmpVec,
              DisMat |-> np_array([nz \in 1..Len(p.depth) |->
                           np_array([k \in 1..Len(p.freq) |->
                              StoreAt(st.DisMat[nz][k], k, nf,
                                      np_abs(col[nz]))])]),
              dis    |-> np_array([nz \in 1..Len(p.depth) |->
                           np_array([k \in 1..Len(p.freq) |->
                              StoreAt(st.dis[nz][k], k, nf, col[nz])])]),
              writes |-> np_array([nz \in 1..Len(p.depth) |->
                           np_array([k \in 1..Len(p.freq) |->
                              IF k = nf THEN st.writes[nz][k] + 1
                              ELSE st.writes[nz][k]])])],
             p))))

(* line 186: mu = dn*(vs**2.) *)
ShearModulus(dn, cvs) ==
    np_array([l \in 1..Len(cvs) |->
                CMul(CNum(dn[l]), CMul(cvs[l], cvs[l]))])

(* line 189: ns = cos(iS)/vs with iS = arcsin(iA) *)
HorizontalSlowness(iA, cvs) ==
    np_array([l \in 1..Len(cvs) |-> CDiv(CosArcsin(iA[l]), cvs[l])])

(* sh_transfer_function(freq, hl, vs, dn, qs, inc_ang, depth): the final   *)
(* buffers; DisMat is what the function returns                            *)
sh_transfer_function(freq, hl, vs, dn, qs, inc, depth_arg) ==
    With(Len(hl), LAMBDA lnum :
    With(freq.v, LAMBDA fr :
    With(ComplexVs(vs, qs), LAMBDA cvs :
    With(interface_depth(hl), LAMBDA bounds :
    With(TargetDepths(depth_arg, bounds), LAMBDA dp :
    With(PropagationSines(cvs, inc), LAMBDA iA :
    With(ShearModulus(dn, cvs), LAMBDA mu :
    With(HorizontalSlowness(iA, cvs), LAMBDA ns :
    LET start  == [LayMat |-> np_array([r \in 1..(2 * lnum) |->
                                 np_array([c \in 1..(2 * lnum) |-> CZero])]),
                   AmpVec |-> np_array([k \in 1..(2 * lnum) |-> CZero]),
                   DisMat |-> np_array([nz \in 1..Len(dp) |->
                                 np_array([k \in 1..Len(fr) |-> np_abs(CZero)])]),
                   dis    |-> np_array([nz \in 1..Len(dp) |->
                                 np_array([k \in 1..Len(fr) |-> CZero])]),
                   writes |-> np_array([nz \in 1..Len(dp) |->
                                 np_array([k \in 1..Len(fr) |-> 0])])]
    IN  With(FrequencyLoop(1, start,
                           [freq |-> fr, hl |-> hl, mu |-> mu, ns |-> ns,
                            bounds |-> bounds, depth |-> dp]),
             LAMBDA st :
             [iA |-> iA, AmpVec |-> st.AmpVec, DisMat |-> st.DisMat,
              dis |-> st.dis, writes |-> st.writes,
              lookup |-> DepthLookups(hl, depth_arg)])))))))))

----------------------------------------------------------------------------
(* sitedb.py: class Model.                                                 *)

GEO_KEYS == <<"hl", "vp", "vs", "dn", "qp", "qs">>

(* numpy.nan *)
NaN == Undef

(* numpy.array([]) *)
EmptyArray == <<>>

(* Model._geo_init: every key of GEO_KEYS holds an empty array *)
geo_init == [K \in {GEO_KEYS[I] : I \in 1..Len(GEO_KEYS)} |-> EmptyArray]

(* int(index): truncation towards zero *)
py_int(x) == IF x.n >= 0 THEN x.n \div x.d ELSE -((-x.n) \div x.d)

(* numpy.insert(arr, index, value): IndexError outside -len..len *)
np_insert(arr, index, value) ==
    IF index > Len(arr) \/ index < -Len(arr)
    THEN [raised |-> "IndexError", v |-> arr]
    ELSE LET at == IF index < 0 THEN index + Len(arr) ELSE index
         IN  [raised |-> NoError,
              v |-> SubSeq(arr, 1, at) \o <<value>>
                    \o SubSeq(arr, at + 1, Len(arr))]

(* numpy.delete(arr, index): IndexError outside -len..len-1 *)
np_delete(arr, index) ==
    IF index >= Len(arr) \/ index < -Len(arr)
    THEN [raised |-> "IndexError", v |-> arr]
    ELSE LET at == IF index < 0 THEN index + Len(arr) ELSE index
         IN  [raised |-> NoError,
              v |-> SubSeq(arr, 1, at) \o SubSeq(arr, at + 2, Len(arr))]

(* The data of add_layer: [kind |-> "list", v |-> the values] or           *)
(* [kind |-> "dict", v |-> the values by key]; any other kind is neither.  *)
ListData(v) == [kind |-> "list", v |-> v]

DictData(v) == [kind |-> "dict", v |-> v]

(* lines 92-95 and 101-104: the value add_layer inserts for key number I,  *)
(* or that there is none in the data                                       *)
LayerField(data, I) ==
    IF data.kind = "list"
    THEN IF I - 1 < Len(data.v)
         THEN [present |-> TRUE, v |-> data.v[I]]
         ELSE [present |-> FALSE, v |-> NaN]
    ELSE IF GEO_KEYS[I] \in DOMAIN data.v
         THEN [present |-> TRUE, v |-> data.v[GEO_KEYS[I]]]
         ELSE [present |-> FALSE, v |-> NaN]

(* lines 92-95 without the else branch: a missing field inserts nothing *)
InsertField_skip_missing(arr, index, field) ==
    IF field.present THEN np_insert(arr, index, field.v)
    ELSE [raised |-> NoError, v |-> arr]

(* lines 92-95 and 101-104: the field, or nan for a missing one, inserted  *)
(* at index                                                                *)
InsertField(arr, index, field) ==
    np_insert(arr, index, IF field.present THEN field.v ELSE NaN)

(* the loop of add_layer over GEO_KEYS from key number I on; an exception  *)
(* leaves the loop with the arrays as they are by then                     *)
RECURSIVE add_layer_loop(_, _, _, _)
add_layer_loop(g, data, index, I) ==
    IF I > Len(GEO_KEYS) THEN [raised |-> NoError, geo |-> g]
    ELSE With(IF index < 0 THEN Len(g[GEO_KEYS[I]]) ELSE index, LAMBDA at :
         With(InsertField(g[GEO_KEYS[I]], at, LayerField(data, I)),
              LAMBDA ins :
              IF ins.raised # NoError
              THEN [raised |-> ins.raised, geo |-> g]
              ELSE add_layer_loop([g EXCEPT ![GEO_KEYS[I]] = ins.v],
                                  data, at, I + 1)))

(* Model.add_layer(data, index) *)
add_layer(g, data, index) ==
    IF data.kind \in {"list", "dict"}
    THEN add_layer_loop(g, data, py_int(index), 1)
    ELSE [raised |-> NoError, geo |-> g]

(* Model.del_layer(index): the loop over GEO_KEYS from key number I on *)
RECURSIVE del_layer_loop(_, _, _)
del_layer_loop(g, index, I) ==
    IF I > Len(GEO_KEYS) THEN [raised |-> NoError, geo |-> g]
    ELSE With(np_delete(g[GEO_KEYS[I]], py_int(index)), LAMBDA del :
              IF del.raised # NoError
              THEN [raised |-> del.raised, geo |-> g]
              ELSE del_layer_loop([g EXCEPT ![GEO_KEYS[I]] = del.v],
                                  index, I + 1))

del_layer(g, index) == del_layer_loop(g, index, 1)

(* sitedb.py lines 39-40 *)
ENG_KEYS == <<"vsz", "qwl", "kappa", "class">>

AMP_KEYS == <<"shtf", "qwl", "kappa">>

(* An entry of eng or amp: [kind |-> "array", v |-> the values], and for   *)
(* the dictionaries stored by Site1D [kind |-> "dict", v |-> the entries]  *)
ArrayEntry(v) == [kind |-> "array", v |-> v]

DictEntry(v) == [kind |-> "dict", v |-> v]

(* Model._eng_init and Model._amp_init *)
eng_init == [K \in {ENG_KEYS[I] : I \in 1..Len(ENG_KEYS)} |->
                ArrayEntry(EmptyArray)]

amp_init == [K \in {AMP_KEYS[I] : I \in 1..Len(AMP_KEYS)} |->
                ArrayEntry(EmptyArray)]

(* Model() *)
Model_init == [geo |-> geo_init, eng |-> eng_init, amp |-> amp_init]

(* float(d) of a field written in decimal digits *)
RECURSIVE py_float_digits(_, _)
py_float_digits(d, acc) ==
    IF d = <<>> THEN acc ELSE py_float_digits(Tail(d), 10 * acc + Head(d))

py_float(d) == Num(py_float_digits(d, 0))

(* lines 177-178: {k:float(d) for k,d in zip(header,data)}; of two fields  *)
(* under one key the later stays                                           *)
ZipLayer(header, data) ==
    With(Min(Len(header), Len(data)), LAMBDA n :
    [K \in { header[i] : i \in 1..n } |->
        py_float(data[CHOOSE i \in 1..n :
                        /\ header[i] = K
                        /\ \A j \in 1..n : header[j] = K => j <= i])])

(* lines 166-179: the loop over the lines of the file from line n on; a    *)
(* line is [comment |-> whether it starts with the comment mark,           *)
(* fields |-> its fields after line.split(delimiter)]                      *)
RECURSIVE from_file_lines(_, _, _, _)
from_file_lines(g, lines, n, header) ==
    IF n > Len(lines) THEN g
    ELSE IF lines[n].comment
    THEN from_file_lines(g, lines, n + 1, header)
    ELSE IF header = <<>>
    THEN from_file_lines(g, lines, n + 1, lines[n].fields)
    ELSE from_file_lines(
             add_layer(g, DictData(ZipLayer(header, lines[n].fields)),
                       Num(-1)).geo,
             lines, n + 1, header)

WrongFile == "Error: Wrong file or file path"

(* Model.from_file(ascii_file) with header=[], skip=0: the model after the *)
(* call and what it printed.  A file is [exists |-> whether open           *)
(* succeeds, lines |-> its lines]                                          *)
from_file(m, file) ==
    IF ~file.exists
    THEN [printed |-> WrongFile, model |-> [m EXCEPT !.geo = geo_init]]
    ELSE [printed |-> "",
          model |-> [m EXCEPT !.geo =
                        from_file_lines(geo_init, file.lines, 1, <<>>)]]

(* the default model=[] of add_model *)
NoModel == [list |-> <<>>]

(* "if model:": an instance of Model is true, the empty list is not *)
Truthy(model) == "geo" \in DOMAIN model

(* list.insert(index, x): an index beyond either end is the end *)
list_insert(l, index, x) ==
    With(IF index < 0 THEN Max(index + Len(l), 0) ELSE Min(index, Len(l)),
         LAMBDA at : SubSeq(l, 1, at) \o <<x>> \o SubSeq(l, at + 1, Len(l)))

(* Site1D.add_model(model, index) *)
add_model(models, model, index) ==
    With(IF py_int(index) < 0 THEN Len(models) ELSE py_int(index),
         LAMBDA at :
         IF Truthy(model) THEN list_insert(models, at, model)
         ELSE list_insert(models, at, Model_init))

(* Site1D.del_model(index) *)
del_model(models, index) ==
    With(py_int(index), LAMBDA ix :
    IF ix >= Len(models) \/ ix < -Len(models)
    THEN [raised |-> "IndexError", model |-> models]
    ELSE With(IF ix < 0 THEN ix + Len(models) ELSE ix, LAMBDA at :
         [raised |-> NoError,
          model |-> SubSeq(models, 1, at)
                    \o SubSeq(models, at + 2, Len(models))]))

(* self.model[index] = model *)
list_setitem(l, index, x) ==
    IF index >= Len(l) \/ index < -Len(l)
    THEN [raised |-> "IndexError", model |-> l]
    ELSE [raised |-> NoError,
          model |-> [l EXCEPT ![IF index < 0 THEN index + Len(l) + 1
                                ELSE index + 1] = x]]

(* Site1D.read_model(ascii_file, index, owrite): the loop over the files   *)
(* from file number n on; fs is the file system by path                    *)
RECURSIVE read_model_loop(_, _, _, _, _, _, _)
read_model_loop(models, fs, ascii_file, index, owrite, n, printed) ==
    IF n > Len(ascii_file)
    THEN [raised |-> NoError, model |-> models, printed |-> printed]
    ELSE With(from_file(Model_init, fs[ascii_file[n]]), LAMBDA rd :
         With(IF rd.printed = "" THEN printed
              ELSE Append(printed, rd.printed), LAMBDA pr :
         IF owrite
         THEN With(list_setitem(models, index, rd.model), LAMBDA st :
              IF st.raised # NoError
              THEN [raised |-> st.raised, model |-> models, printed |-> pr]
              ELSE read_model_loop(st.model, fs, ascii_file, index, owrite,
                                   n + 1, pr))
         ELSE read_model_loop(add_model(models, rd.model, Num(index)), fs,
                              ascii_file, index, owrite, n + 1, pr)))

read_model(models, fs, ascii_file, index, owrite) ==
    read_model_loop(models, fs, ascii_file, index, owrite, 1, <<>>)

----------------------------------------------------------------------------
(* sitedb.py: the computations of class Site1D.  The value of a function   *)
(* that is evaluated elsewhere, or that the repository keeps in            *)
(* openquake.srtk.utils, is kept as the application of the function to its *)
(* arguments.                                                              *)

Applied(fn, of) == [fn |-> fn, of |-> of]

(* line 36 *)
DECIMALS == 6

(* _ut.a_round(x, DECIMALS) *)
a_round(x, decimals) == Applied("a_round", <<x, decimals>>)

(* _ut.log_stat(data) and _ut.lin_stat(data): the pair (mn, sd) *)
log_stat(data) == <<Applied("log_stat.mn", data), Applied("log_stat.sd", data)>>

lin_stat(data) == <<Applied("lin_stat.mn", data), Applied("lin_stat.sd", data)>>

(* (_ut.a_round(mn, DECIMALS), _ut.a_round(sd, DECIMALS)) *)
RoundedPair(st) == <<a_round(st[1], DECIMALS), a_round(st[2], DECIMALS)>>

(* _ut.is_empty(x) of a reference argument *)
is_empty(x) == np_size(x) = 0

(* an entry of eng or amp that a method of Site1D has stored *)
StoredEntry(v) == [kind |-> "stored", v |-> v]

(* a dictionary entry {z: value} is the sequence of its pairs <<z, value>> *)
DictHas(entry, z) ==
    entry.kind = "dict" /\ \E k \in 1..Len(entry.v) : entry.v[k][1] = z

DictGet(entry, z) ==
    entry.v[CHOOSE k \in 1..Len(entry.v) : entry.v[k][1] = z][2]

(* the whole numbers held by an array of floats *)
Whole(arr) == [i \in 1..Len(arr) |-> arr[i].n]

(* what a method of Site1D leaves: the exception it raised, what it        *)
(* printed, the models, the mean model, and the arguments of its calls of  *)
(* impedance_amplification                                                 *)
Outcome(raised, printed, models, mean, calls) ==
    [raised |-> raised, printed |-> printed, model |-> models,
     mean |-> mean, calls |-> calls]

(* average.py line 65 for a profile without layers: soil_param[-1] of an   *)
(* empty array raises IndexError                                           *)
EmptyProfile(hl, sp) == Len(hl) = 0 /\ Len(sp) = 0

(* Site1D.traveltime_velocity(depth) for one depth: the loop over the      *)
(* models from model i on                                                  *)
RECURSIVE traveltime_velocity_loop(_, _, _)
traveltime_velocity_loop(models, z, i) ==
    IF i > Len(models) THEN [raised |-> NoError, model |-> models]
    ELSE With([models EXCEPT ![i].eng.vsz = DictEntry(<<>>)], LAMBDA cleared :
         IF EmptyProfile(models[i].geo.hl, models[i].geo.vs)
         THEN [raised |-> "IndexError", model |-> cleared]
         ELSE traveltime_velocity_loop(
                  [cleared EXCEPT ![i].eng.vsz = DictEntry(
                      << <<z, a_round(traveltime_average_velocity(
                                         Whole(models[i].geo.hl),
                                         Whole(models[i].geo.vs), z),
                                      DECIMALS)>> >>)],
                  z, i + 1))

traveltime_velocity(models, mean, z) ==
    With(traveltime_velocity_loop(models, z, 1), LAMBDA lp :
    IF lp.raised # NoError
    THEN Outcome(lp.raised, <<>>, lp.model, mean, <<>>)
    ELSE Outcome(NoError, <<>>, lp.model,
                 [mean EXCEPT !.eng.vsz = DictEntry(
                     << <<z, RoundedPair(log_stat(
                               [k \in 1..Len(lp.model) |->
                                   DictGet(lp.model[k].eng.vsz, z)]))>> >>)],
                 <<>>))

Vs30First == "Error: Vs30 must be calculated first"

(* _avg.gt_soil_class(vs30, code) *)
gt_soil_class(vs30, code) == Applied("gt_soil_class", <<vs30, code>>)

(* Site1D.compute_soil_class(code): the loop over the models *)
RECURSIVE compute_soil_class_loop(_, _, _)
compute_soil_class_loop(models, code, i) ==
    IF i > Len(models) THEN [printed |-> <<>>, model |-> models]
    ELSE IF ~DictHas(models[i].eng.vsz, 30)
    THEN [printed |-> <<Vs30First>>, model |-> models]
    ELSE compute_soil_class_loop(
             [models EXCEPT ![i].eng.class = StoredEntry(
                 gt_soil_class(DictGet(models[i].eng.vsz, 30), code))],
             code, i + 1)

compute_soil_class(models, mean, code) ==
    IF ~DictHas(mean.eng.vsz, 30)
    THEN Outcome(NoError, <<Vs30First>>, models, mean, <<>>)
    ELSE With(compute_soil_class_loop(models, code, 1), LAMBDA lp :
         Outcome(NoError, lp.printed, lp.model,
                 [mean EXCEPT !.eng.class = StoredEntry(
                     gt_soil_class(DictGet(mean.eng.vsz, 30)[1], code))],
                 <<>>))

(* Variant of _check_frequency that never raises. *)
check_frequency_pass(freq) == NoError

(* Site1D._check_frequency: "if not _np.sum(self.freq): raise ValueError" *)
check_frequency(freq) == IF SumSeq(freq) = 0 THEN "ValueError" ELSE NoError

(* _avg.quarter_wavelength_average(hl, vs, dn, freq) from frequency nf on: *)
(* the results the search can give, as the loop of                         *)
(* quarter_wavelength_velocity with the density averaged at the same depth *)
RECURSIVE quarter_wavelength_average_from(_, _, _, _, _, _)
quarter_wavelength_average_from(hl, vs, dn, freq, nf, acc) ==
    IF nf > Len(freq) THEN { acc }
    ELSE IF Len(vs) = 0 THEN { [acc EXCEPT !.raised = "ValueError"] }
    ELSE UNION {
        IF out.raised # NoError THEN { [acc EXCEPT !.raised = out.raised] }
        ELSE quarter_wavelength_average_from(hl, vs, dn, freq, nf + 1,
                 [raised |-> NoError,
                  z  |-> Append(acc.z, out.x),
                  vs |-> Append(acc.vs,
                                qwl_velocity_at(hl, Slowness(vs), out.x)),
                  dn |-> Append(acc.dn, qwl_density_at(hl, dn, out.x))]) :
        out \in fminbound(qwl_upper_bound(Slowness(vs), freq[nf])) }

quarter_wavelength_average(hl, vs, dn, freq) ==
    quarter_wavelength_average_from(hl, vs, dn, freq, 1,
        [raised |-> NoError, z |-> <<>>, vs |-> <<>>, dn |-> <<>>])

(* Site1D.quarter_wavelength_average: the loop over the models from model  *)
(* i on, for every result of the searches                                  *)
RECURSIVE quarter_wavelength_average_loop(_, _, _)
quarter_wavelength_average_loop(models, freq, i) ==
    IF i > Len(models) THEN { [raised |-> NoError, model |-> models] }
    ELSE UNION {
        IF qwl_par.raised # NoError
        THEN { [raised |-> qwl_par.raised, model |-> models] }
        ELSE quarter_wavelength_average_loop(
                 [models EXCEPT ![i].eng.qwl = DictEntry(
                     [z  |-> a_round(qwl_par.z, DECIMALS),
                      vs |-> a_round(qwl_par.vs, DECIMALS),
                      dn |-> a_round(qwl_par.dn, DECIMALS)])],
                 freq, i + 1) :
        qwl_par \in quarter_wavelength_average(Whole(models[i].geo.hl),
                        Whole(models[i].geo.vs), Whole(models[i].geo.dn),
                        freq) }

Site1D_quarter_wavelength_average(models, mean, freq) ==
    IF check_frequency(freq) # NoError
    THEN { Outcome(check_frequency(freq), <<>>, models, mean, <<>>) }
    ELSE { IF lp.raised # NoError
           THEN Outcome(lp.raised, <<>>, lp.model, mean, <<>>)
           ELSE Outcome(NoError, <<>>, lp.model,
                    [mean EXCEPT !.eng.qwl = DictEntry(
                        [key \in {"z", "vs", "dn"} |->
                            RoundedPair(log_stat(
                                [k \in 1..Len(lp.model) |->
                                    lp.model[k].eng.qwl.v[key]]))])],
                    <<>>) :
           lp \in quarter_wavelength_average_loop(models, freq, 1) }

(* Site1D.quarter_wavelength_amplification(vs_ref, dn_ref, inc_ang): the   *)
(* loop over the models from model i on; vs_ref and dn_ref are the names   *)
(* the loop assigns to                                                     *)
RECURSIVE quarter_wavelength_amplification_loop(_, _, _, _, _, _)
quarter_wavelength_amplification_loop(models, vs_ref, dn_ref, inc, i, calls) ==
    IF i > Len(models)
    THEN [raised |-> NoError, model |-> models, calls |-> calls]
    ELSE IF (is_empty(vs_ref) \/ is_empty(dn_ref))
            /\ Len(models[i].geo.vs) = 0
    THEN [raised |-> "IndexError", model |-> models, calls |-> calls]
    ELSE With(IF is_empty(vs_ref) THEN Scalar(Last(models[i].geo.vs))
              ELSE vs_ref, LAMBDA vs_ref1 :
         With(IF is_empty(dn_ref) THEN Scalar(Last(models[i].geo.dn))
              ELSE dn_ref, LAMBDA dn_ref1 :
         IF models[i].eng.qwl.kind # "dict"
         THEN [raised |-> "IndexError", model |-> models, calls |-> calls]
         ELSE With([top_vs |-> models[i].eng.qwl.v.vs,
                    top_dn |-> models[i].eng.qwl.v.dn,
                    ref_vs |-> vs_ref1, ref_dn |-> dn_ref1,
                    inc_ang |-> inc], LAMBDA args :
              quarter_wavelength_amplification_loop(
                  [models EXCEPT ![i].amp.qwl = StoredEntry(
                      a_round(Applied("impedance_amplification", args),
                              DECIMALS))],
                  vs_ref1, dn_ref1, inc, i + 1, Append(calls, args)))))

quarter_wavelength_amplification(models, mean, vs_ref, dn_ref, inc) ==
    With(quarter_wavelength_amplification_loop(models, vs_ref, dn_ref, inc,
                                               1, <<>>), LAMBDA lp :
    IF lp.raised # NoError
    THEN Outcome(lp.raised, <<>>, lp.model, mean, lp.calls)
    ELSE Outcome(NoError, <<>>, lp.model,
             [mean EXCEPT !.amp.qwl = StoredEntry(RoundedPair(log_stat(
                 [k \in 1..Len(lp.model) |-> lp.model[k].amp.qwl.v])))],
             lp.calls))

(* Site1D.compute_site_kappa(depth): the loop over the models *)
RECURSIVE Site1D_compute_site_kappa_loop(_, _, _)
Site1D_compute_site_kappa_loop(models, dp, i) ==
    IF i > Len(models) THEN [raised |-> NoError, model |-> models]
    ELSE IF EmptyProfile(models[i].geo.hl, models[i].geo.vs)
    THEN [raised |-> "IndexError", model |-> models]
    ELSE Site1D_compute_site_kappa_loop(
             [models EXCEPT ![i].eng.kappa = StoredEntry(
                 a_round(compute_site_kappa(Whole(models[i].geo.hl),
                                            Whole(models[i].geo.vs),
                                            Whole(models[i].geo.qs), dp),
                         DECIMALS))],
             dp, i + 1)

Site1D_compute_site_kappa(models, mean, dp) ==
    With(Site1D_compute_site_kappa_loop(models, dp, 1), LAMBDA lp :
    IF lp.raised # NoError
    THEN Outcome(lp.raised, <<>>, lp.model, mean, <<>>)
    ELSE Outcome(NoError, <<>>, lp.model,
             [mean EXCEPT !.eng.kappa = StoredEntry(RoundedPair(lin_stat(
                 [k \in 1..Len(lp.model) |-> lp.model[k].eng.kappa.v])))],
             <<>>))

(* Site1D.attenuation_decay *)
attenuation_decay(models, mean, freq) ==
    IF check_frequency(freq) # NoError
    THEN Outcome(check_frequency(freq), <<>>, models, mean, <<>>)
    ELSE With([i \in 1..Len(models) |->
                 [models[i] EXCEPT !.amp.kappa = StoredEntry(
                     a_round(Applied("attenuation_decay",
                                     <<freq, models[i].eng.kappa>>),
                             DECIMALS))]], LAMBDA done :
         Outcome(NoError, <<>>, done,
             [mean EXCEPT !.amp.kappa = StoredEntry(RoundedPair(log_stat(
                 [k \in 1..Len(done) |-> done[k].amp.kappa.v])))],
             <<>>))

(* Site1D.sh_transfer_function(inc_ang, elastic, complex): the loop over   *)
(* the models; a profile without layers raises IndexError at iD[0]         *)
RECURSIVE Site1D_sh_transfer_function_loop(_, _, _, _, _, _)
Site1D_sh_transfer_function_loop(models, freq, inc, el, cx, i) ==
    IF i > Len(models) THEN [raised |-> NoError, model |-> models]
    ELSE IF Len(models[i].geo.hl) = 0
    THEN [raised |-> "IndexError", model |-> models]
    ELSE With(Applied("sh_transfer_function",
                      <<freq, models[i].geo.hl, models[i].geo.vs,
                        models[i].geo.dn,
                        IF ~el THEN models[i].geo.qs ELSE NoQs, inc, 0>>),
              LAMBDA dis_mat :
         Site1D_sh_transfer_function_loop(
             [models EXCEPT ![i].amp.shtf = StoredEntry(
                 IF cx THEN Applied("dis_mat[0]/2", dis_mat)
                 ELSE Applied("abs(dis_mat[0])/2", dis_mat))],
             freq, inc, el, cx, i + 1))

Site1D_shtf(models, mean, freq, inc, el, cx) ==
    IF check_frequency(freq) # NoError
    THEN Outcome(check_frequency(freq), <<>>, models, mean, <<>>)
    ELSE With(Site1D_sh_transfer_function_loop(models, freq, inc, el, cx, 1),
              LAMBDA lp :
         IF lp.raised # NoError
         THEN Outcome(lp.raised, <<>>, lp.model, mean, <<>>)
         ELSE With([k \in 1..Len(lp.model) |-> lp.model[k].amp.shtf.v],
                   LAMBDA data :
              Outcome(NoError, <<>>, lp.model,
                  [mean EXCEPT !.amp.shtf = StoredEntry(
                      IF cx THEN lin_stat(data) ELSE log_stat(data))],
                  <<>>)))

----------------------------------------------------------------------------
(* Inputs: profiles built from a small set of layers, plus the profiles of *)
(* the repository's unit tests.                                            *)

LayerSet ==
    { [hl |-> 10, sp |-> 5,   vs |-> 100,  qs |-> 10],
      [hl |-> 20, sp |-> 10,  vs |-> 500,  qs |-> 20],
      [hl |-> 0,  sp |-> 50,  vs |-> 1000, qs |-> 100],
      [hl |-> 50, sp |-> 10,  vs |-> 500,  qs |-> 20],
      [hl |-> 5,  sp |-> 7,   vs |-> 200,  qs |-> 10],
      [hl |-> 0,  sp |-> 100, vs |-> 100,  qs |-> 10] }

LayerSeqs == UNION { [1..n -> LayerSet] : n \in 1..MaxLayers }

ProfileOf(ls) ==
    [hl |-> [i \in 1..Len(ls) |-> ls[i].hl],
     sp |-> [i \in 1..Len(ls) |-> Num(ls[i].sp)],
     vs |-> [i \in 1..Len(ls) |-> ls[i].vs],
     qs |-> [i \in 1..Len(ls) |-> ls[i].qs]]

TestProfiles ==
    { [hl |-> <<50, 10, 0>>, sp |-> <<Num(5), Num(10), Num(50)>>,
       vs |-> <<200, 500, 1000>>, qs |-> <<10, 20, 100>>],
      [hl |-> <<5, 10, 10, 20, 0>>,
       sp |-> <<Num(5), Num(10), Num(10), Num(50), Num(100)>>,
       vs |-> <<200, 300, 350, 650, 1200>>,
       qs |-> <<10, 20, 20, 50, 100>>] }

Profiles == { ProfileOf(ls) : ls \in LayerSeqs } \cup TestProfiles

DepthArgs == { NoDepth, <<0>>, <<5>>, <<10>>, <<20>>, <<25>>, <<30>>, <<35>>,
               <<50>>, <<100>> }

AvgInputs ==
    /\ call = "none"
    /\ \E p \in Profiles :
          /\ thickness = p.hl
          /\ soil_param = p.sp
          /\ s_velocity = p.vs
          /\ s_quality = p.qs
    /\ depth \in DepthArgs
    /\ result = Undef

AvgIdle ==
    /\ thickness = <<>>
    /\ soil_param = <<>>
    /\ s_velocity = <<>>
    /\ s_quality = <<>>
    /\ depth = NoDepth
    /\ result = Undef

AmpIdle ==
    /\ top_vs = NoRef
    /\ top_dn = NoRef
    /\ ref_vs = NoRef
    /\ ref_dn = NoRef
    /\ inc_ang = 0
    /\ imp_amp = NoRef

TfIdle ==
    /\ tf_freq = NoRef
    /\ tf_hl = <<>>
    /\ tf_vs = <<>>
    /\ tf_dn = <<>>
    /\ tf_qs = NoQs
    /\ tf_depth = Scalar(0)
    /\ tf_iA = <<>>
    /\ tf_AmpVec = <<>>
    /\ tf_DisMat = <<>>
    /\ tf_dis = <<>>
    /\ tf_writes = <<>>
    /\ tf_lookup = <<>>
    /\ elastic = FALSE
    /\ complex = FALSE
    /\ shtf = [raised |-> "", v |-> <<>>]

QwlIdle ==
    /\ frequency = <<>>
    /\ qwl_nf = 0
    /\ qwl_ubnd = Undef
    /\ qwl_depth = <<>>
    /\ qwl_velocity = <<>>
    /\ qwl_misfit = Undef
    /\ s_density = <<>>
    /\ qwl_density = <<>>
    /\ qwl_raised = NoError

LayerIdle ==
    /\ geo = geo_init
    /\ geo_pre = geo_init
    /\ layer_call = [op |-> "none"]

SiteIdle ==
    /\ site_model = <<>>
    /\ site_pre = <<>>
    /\ site_freq = <<>>
    /\ site_mean = Model_init
    /\ site_call = [op |-> "none"]

MemIdle ==
    /\ heap = <<>>
    /\ heap_pre = <<>>
    /\ mem_args = <<>>
    /\ mem_ret = <<>>
    /\ mem_call = "none"

ObjIdle == LayerIdle /\ SiteIdle /\ MemIdle

(* (velocity, density) pairs of the top of the column *)
TopPairs == { <<200, 1900>>, <<800, 2100>>, <<2000, 2500>>, <<1500, 2500>> }

TopSeqs == UNION { [1..n -> TopPairs] : n \in 1..MaxTop }

RefVsArgs == { NoRef, Scalar(0), Scalar(200), Scalar(1500), Scalar(2000) }

RefDnArgs == { NoRef, Scalar(0), Scalar(1900), Scalar(2500) }

Angles == { 0, 30, 45, 60 }

AmpInputs ==
    /\ call = "none"
    /\ \/ \E ps \in TopSeqs :
             /\ top_vs = Array([k \in 1..Len(ps) |-> ps[k][1]])
             /\ top_dn = Array([k \in 1..Len(ps) |-> ps[k][2]])
       \/ \E p \in TopPairs :
             /\ top_vs = Scalar(p[1])
             /\ top_dn = Scalar(p[2])
    /\ ref_vs \in RefVsArgs
    /\ ref_dn \in RefDnArgs
    /\ inc_ang \in Angles
    /\ imp_amp = NoRef

Init == AvgInputs /\ AmpIdle /\ TfIdle /\ QwlIdle /\ ObjIdle

DepthWeightedAverage ==
    /\ call = "none"
    /\ depth # NoDepth
    /\ call' = "depth_weighted_average"
    /\ result' = depth_weighted_average(thickness, soil_param, depth[1])
    /\ UNCHANGED <<thickness, soil_param, s_velocity, s_quality, depth>>
    /\ UNCHANGED <<ampVars, tfVars, qwlVars, objVars>>

TraveltimeAverageVelocity ==
    /\ call = "none"
    /\ call' = "traveltime_average_velocity"
    /\ result' = traveltime_average_velocity(thickness, s_velocity,
                     IF depth = NoDepth THEN DefaultVsDepth ELSE depth[1])
    /\ UNCHANGED <<thickness, soil_param, s_velocity, s_quality, depth>>
    /\ UNCHANGED <<ampVars, tfVars, qwlVars, objVars>>

ComputeSiteKappa ==
    /\ call = "none"
    /\ call' = "compute_site_kappa"
    /\ result' = compute_site_kappa(thickness, s_velocity, s_quality, depth)
    /\ UNCHANGED <<thickness, soil_param, s_velocity, s_quality, depth>>
    /\ UNCHANGED <<ampVars, tfVars, qwlVars, objVars>>

Next ==
    \/ DepthWeightedAverage
    \/ TraveltimeAverageVelocity
    \/ ComputeSiteKappa

Spec == Init /\ [][Next]_vars

ImpedanceAmplification ==
    /\ call = "none"
    /\ call' = "impedance_amplification"
    /\ imp_amp' = impedance_amplification(top_vs, top_dn, ref_vs, ref_dn,
                                          inc_ang)
    /\ UNCHANGED <<top_vs, top_dn, ref_vs, ref_dn, inc_ang>>
    /\ UNCHANGED <<avgVars, tfVars, qwlVars, objVars>>

NextAmp == ImpedanceAmplification

InitAmp == AmpInputs /\ AvgIdle /\ TfIdle /\ QwlIdle /\ ObjIdle

SpecAmp == InitAmp /\ [][NextAmp]_vars

----------------------------------------------------------------------------
(* The transfer function: sh_transfer_function called directly, and        *)
(* through Site1D.sh_transfer_function.  Thicknesses and depths are        *)
(* multiples of 5 m, velocities 100 or 200 m/s and frequencies 0 or 10 Hz, *)
(* so that every phase 2 pi f h / vs is a whole number of quarter turns    *)
(* and the exponentials are exact; with quality factors the velocities are *)
(* complex and only the zero frequency keeps that property.  A layer of    *)
(* zero density makes the layer matrix singular at some frequencies.       *)

TfLayerSet ==
    { [hl |-> 5,  vs |-> 200, dn |-> 1],
      [hl |-> 10, vs |-> 100, dn |-> 1],
      [hl |-> 0,  vs |-> 200, dn |-> 0] }

TfLayerSeqs == UNION { [1..n -> TfLayerSet] : n \in 1..MaxTfLayers }

TfFrequencies == {0, 10}

TfFreqArgs ==
    { Scalar(10) } \cup
    { Array(s) : s \in UNION { [1..n -> TfFrequencies] : n \in 1..MaxFreq } }

TfDepthArgs ==
    { Scalar(-1), Scalar(0), Scalar(5), Array(<<20, 10>>) }

TfQsArgs(n) == { NoQs, [l \in 1..n |-> 1] }

TfInputs ==
    /\ call = "none"
    /\ \E ls \in TfLayerSeqs :
          /\ tf_hl = [l \in 1..Len(ls) |-> ls[l].hl]
          /\ tf_vs = [l \in 1..Len(ls) |-> ls[l].vs]
          /\ tf_dn = [l \in 1..Len(ls) |-> ls[l].dn]
          /\ tf_qs \in TfQsArgs(Len(ls))
    /\ tf_freq \in TfFreqArgs
    /\ tf_qs # NoQs => \A k \in 1..Len(tf_freq.v) : tf_freq.v[k] = 0
    /\ tf_depth \in TfDepthArgs
    /\ tf_iA = <<>>
    /\ tf_AmpVec = <<>>
    /\ tf_DisMat = <<>>
    /\ tf_dis = <<>>
    /\ tf_writes = <<>>
    /\ tf_lookup = <<>>
    /\ elastic = FALSE
    /\ complex = FALSE
    /\ shtf = [raised |-> "", v |-> <<>>]

InitTF == TfInputs /\ AvgIdle /\ AmpIdle /\ QwlIdle /\ ObjIdle

ShTransferFunction ==
    /\ call = "none"
    /\ call' = "sh_transfer_function"
    /\ \E st \in { sh_transfer_function(tf_freq, tf_hl, tf_vs, tf_dn, tf_qs,
                                         inc_ang, tf_depth) } :
          /\ tf_iA' = st.iA
          /\ tf_AmpVec' = st.AmpVec
          /\ tf_DisMat' = st.DisMat
          /\ tf_dis' = st.dis
          /\ tf_writes' = st.writes
          /\ tf_lookup' = st.lookup
    /\ UNCHANGED <<tf_freq, tf_hl, tf_vs, tf_dn, tf_qs, tf_depth,
                   elastic, complex, shtf>>
    /\ UNCHANGED <<avgVars, ampVars, qwlVars, objVars>>

(* numpy.abs of a row of DisMat: the magnitudes are real and not negative *)
np_abs_row(row) == row

(* dis_mat[0]/2: half of every magnitude of a row of DisMat *)
HalfOfRow(row) ==
    [k \in 1..Len(row) |-> [abs2 |-> RDiv(row[k].abs2, Num(4))]]

(* Site1D.sh_transfer_function(inc_ang, elastic, complex) for a site with  *)
(* one model; the statistics over the models are left out                  *)
Site1D_sh_transfer_function ==
    /\ call = "none"
    /\ call' = "Site1D.sh_transfer_function"
    /\ \E el \in BOOLEAN :
          /\ elastic' = el
          /\ IF np_sum(tf_freq) = 0
             THEN /\ complex' \in BOOLEAN
                  /\ shtf' = [raised |-> "ValueError", v |-> <<>>]
                  /\ UNCHANGED <<tf_iA, tf_AmpVec, tf_DisMat, tf_dis,
                                 tf_writes, tf_lookup>>
             ELSE \E st \in { sh_transfer_function(tf_freq, tf_hl, tf_vs,
                                  tf_dn, IF ~el THEN tf_qs ELSE NoQs,
                                  inc_ang, Scalar(0)) } :
                      /\ tf_iA' = st.iA
                      /\ tf_AmpVec' = st.AmpVec
                      /\ tf_DisMat' = st.DisMat
                      /\ tf_dis' = st.dis
                      /\ tf_writes' = st.writes
                      /\ tf_lookup' = st.lookup
                      /\ \E cx \in BOOLEAN :
                            /\ complex' = cx
                            /\ shtf' = [raised |-> "",
                                        v |-> IF cx
                                              THEN HalfOfRow(st.DisMat[1])
                                              ELSE HalfOfRow(
                                                      np_abs_row(st.DisMat[1]))]
    /\ UNCHANGED <<tf_freq, tf_hl, tf_vs, tf_dn, tf_qs, tf_depth>>
    /\ UNCHANGED <<avgVars, ampVars, qwlVars, objVars>>

(* The depth stage of sh_transfer_function on its own (lines 155-164 and   *)
(* 254-263), over deeper profiles and every whole depth.                   *)
LookupThicknesses == {0, 5, 10}

LookupInputs ==
    /\ call = "none"
    /\ tf_hl \in UNION { [1..n -> LookupThicknesses] :
                            n \in 1..MaxLookupLayers }
    /\ tf_depth \in { Scalar(d) : d \in (-1)..MaxLookupDepth }
    /\ tf_freq = NoRef
    /\ tf_vs = <<>>
    /\ tf_dn = <<>>
    /\ tf_qs = NoQs
    /\ tf_iA = <<>>
    /\ tf_AmpVec = <<>>
    /\ tf_DisMat = <<>>
    /\ tf_dis = <<>>
    /\ tf_writes = <<>>
    /\ tf_lookup = <<>>
    /\ elastic = FALSE
    /\ complex = FALSE
    /\ shtf = [raised |-> "", v |-> <<>>]

InitLookup == LookupInputs /\ AvgIdle /\ AmpIdle /\ QwlIdle /\ ObjIdle

DepthLookup ==
    /\ call = "none"
    /\ call' = "depth lookup"
    /\ tf_lookup' = DepthLookups(tf_hl, tf_depth)
    /\ UNCHANGED <<tf_freq, tf_hl, tf_vs, tf_dn, tf_qs, tf_depth, tf_iA,
                   tf_AmpVec, tf_DisMat, tf_dis, tf_writes, elastic, complex,
                   shtf>>
    /\ UNCHANGED <<avgVars, ampVars, qwlVars, objVars>>

NextLookup == DepthLookup

SpecLookup == InitLookup /\ [][NextLookup]_vars

(* The propagation-angle stage of sh_transfer_function on its own (lines  *)
(* 166-180), for any incidence angle.                                      *)
AngVelocities == {100, 200, 400}

AngInputs ==
    /\ call = "none"
    /\ tf_vs \in UNION { [1..n -> AngVelocities] : n \in 1..MaxAngLayers }
    /\ tf_qs \in TfQsArgs(Len(tf_vs))
    /\ inc_ang \in Angles
    /\ top_vs = NoRef
    /\ top_dn = NoRef
    /\ ref_vs = NoRef
    /\ ref_dn = NoRef
    /\ imp_amp = NoRef
    /\ tf_freq = NoRef
    /\ tf_hl = <<>>
    /\ tf_dn = <<>>
    /\ tf_depth = Scalar(0)
    /\ tf_iA = <<>>
    /\ tf_AmpVec = <<>>
    /\ tf_DisMat = <<>>
    /\ tf_dis = <<>>
    /\ tf_writes = <<>>
    /\ tf_lookup = <<>>
    /\ elastic = FALSE
    /\ complex = FALSE
    /\ shtf = [raised |-> "", v |-> <<>>]

InitAng == AngInputs /\ AvgIdle /\ QwlIdle /\ ObjIdle

PropagationAngles ==
    /\ call = "none"
    /\ call' = "propagation angles"
    /\ tf_iA' = PropagationSines(ComplexVs(tf_vs, tf_qs), inc_ang)
    /\ UNCHANGED <<tf_freq, tf_hl, tf_vs, tf_dn, tf_qs, tf_depth, tf_AmpVec,
                   tf_DisMat, tf_dis, tf_writes, tf_lookup, elastic, complex,
                   shtf>>
    /\ UNCHANGED <<avgVars, ampVars, qwlVars, objVars>>

NextAng == PropagationAngles

SpecAng == InitAng /\ [][NextAng]_vars

(* quarter_wavelength_velocity: one action per iteration of its loop over  *)
(* the frequencies.                                                        *)
QwlFrequencies == {5, 25, 0, -5}

(* densities in kg/m3 of soft and stiff layers *)
DensityOf(vs) == IF vs < 500 THEN 1900 ELSE 2100

QwlProfiles ==
    { ProfileOf(ls) : ls \in UNION { [1..n -> LayerSet] :
                                        n \in 1..MaxQwlLayers } }
    \cup TestProfiles

QwlInputs ==
    /\ call = "none"
    /\ \E p \in QwlProfiles :
          /\ thickness = p.hl
          /\ s_velocity = p.vs
          /\ s_density = [i \in 1..Len(p.vs) |-> DensityOf(p.vs[i])]
    /\ soil_param = <<>>
    /\ s_quality = <<>>
    /\ depth = NoDepth
    /\ result = Undef
    /\ frequency \in UNION { [1..n -> QwlFrequencies] : n \in 1..MaxQwlFreq }
    /\ qwl_nf = 0
    /\ qwl_ubnd = Undef
    /\ qwl_depth = <<>>
    /\ qwl_velocity = <<>>
    /\ qwl_misfit = Undef
    /\ qwl_density = <<>>
    /\ qwl_raised = NoError

InitQwl == QwlInputs /\ AmpIdle /\ TfIdle /\ ObjIdle

(* lines 169-183: iteration nf of the loop; an exception of the search    *)
(* leaves the function, and the arrays filled so far are not returned     *)
QwlIteration(name, with_density) ==
    /\ call \in {"none", name}
    /\ qwl_raised = NoError
    /\ qwl_nf < Len(frequency)
    /\ call' = name
    /\ LET slowness == Slowness(s_velocity)
           f        == frequency[qwl_nf + 1]
           ub       == qwl_upper_bound(slowness, f)
       IN  /\ qwl_ubnd' = ub
           /\ \E out \in fminbound(ub) :
                 IF out.raised # NoError
                 THEN /\ qwl_raised' = out.raised
                      /\ UNCHANGED <<qwl_nf, qwl_misfit, qwl_depth,
                                     qwl_velocity, qwl_density>>
                 ELSE /\ qwl_raised' = NoError
                      /\ qwl_nf' = qwl_nf + 1
                      /\ qwl_misfit' =
                            qwl_misfit_at(thickness, slowness, f, out.x)
                      /\ qwl_depth' = Append(qwl_depth, out.x)
                      /\ qwl_velocity' =
                            Append(qwl_velocity,
                                   qwl_velocity_at(thickness, slowness, out.x))
                      /\ qwl_density' =
                            IF with_density
                            THEN Append(qwl_density,
                                        qwl_density_at(thickness, s_density,
                                                       out.x))
                            ELSE qwl_density
    /\ UNCHANGED <<thickness, soil_param, s_velocity, s_quality, depth,
                   result, frequency, s_density>>
    /\ UNCHANGED <<ampVars, tfVars, objVars>>

QuarterWavelengthIteration ==
    QwlIteration("quarter_wavelength_velocity", FALSE)

(* quarter_wavelength_average(thickness, s_velocity, density, frequency),  *)
(* the function Site1D.quarter_wavelength_average calls: the loop of       *)
(* quarter_wavelength_velocity with the average density at each depth      *)
QuarterWavelengthAverageIteration ==
    QwlIteration("quarter_wavelength_average", TRUE)

NextQwl ==
    \/ QuarterWavelengthIteration
    \/ QuarterWavelengthAverageIteration

SpecQwl == InitQwl /\ [][NextQwl]_vars

NextTF ==
    \/ ShTransferFunction
    \/ Site1D_sh_transfer_function

SpecTF == InitTF /\ [][NextTF]_vars

----------------------------------------------------------------------------
(* Reference quantities used to state the properties of the averaging      *)
(* functions: the geometry of the profile, independent of the layer walk.  *)

(* depth of the bottom of layer k (0 for k = 0) *)
Cum(hl, k) == SumSeq(SubSeq(hl, 1, k))

(* length of the part of [0, z] that lies inside layer i; the last layer   *)
(* is the half-space and extends downwards without limit                   *)
Overlap(hl, z, i) ==
    IF i < Len(hl)
    THEN Max(0, Min(z, Cum(hl, i)) - Cum(hl, i - 1))
    ELSE Max(0, z - Cum(hl, Len(hl) - 1))

(* SUM_{i <= k} Overlap_i * sp_i *)
RECURSIVE OverlapSum(_, _, _, _)
OverlapSum(hl, sp, z, k) ==
    IF k = 0 THEN Zero
    ELSE RAdd(OverlapSum(hl, sp, z, k - 1), RMul(Num(Overlap(hl, z, k)), sp[k]))

(* SUM_{i <= k} hl_i * sp_i *)
RECURSIVE LayerSum(_, _, _)
LayerSum(hl, sp, k) ==
    IF k = 0 THEN Zero
    ELSE RAdd(LayerSum(hl, sp, k - 1), RMul(Num(hl[k]), sp[k]))

Ones(n) == [i \in 1..n |-> One]

(* sp with the properties of the layers below layer k replaced by v *)
BelowReplaced(sp, k, v) == [i \in 1..Len(sp) |-> IF i > k THEN v ELSE sp[i]]

InvQV(vs, qs) == [i \in 1..Len(vs) |-> RDiv(One, Num(vs[i] * qs[i]))]

IsCall(f) == call = f

DepthGiven == depth # NoDepth /\ depth[1] > 0

VsDepth == IF depth = NoDepth THEN DefaultVsDepth ELSE depth[1]

----------------------------------------------------------------------------
(* C1: for a profile of L >= 1 layers with non-negative finite thicknesses *)
(* and a depth > 0, depth_weighted_average returns (1/depth) * SUM_i       *)
(* w_i * property_i, with w_i the length of [0, depth] inside layer i, and *)
(* the weights the walk applies sum to depth (averaging the constant       *)
(* property 1 gives 1).                                                    *)
C1_OverlapWeightedMean ==
    (IsCall("depth_weighted_average") /\ DepthGiven) =>
        /\ result = RDiv(OverlapSum(thickness, soil_param, depth[1],
                                    Len(thickness)), Num(depth[1]))
        /\ depth_weighted_average(thickness, Ones(Len(thickness)), depth[1]) = One

C1_Witness ==
    /\ IsCall("depth_weighted_average")
    /\ thickness = <<10, 20, 0>>
    /\ soil_param = <<Num(5), Num(10), Num(50)>>
    /\ depth = <<100>>
    /\ result = Rat(75, 2)

(* C2: depth_weighted_average is continuous at interfaces: at a depth equal *)
(* to the cumulative thickness of the first k finite layers the result is   *)
(* the mean over those k layers alone, whatever the properties of the       *)
(* layers below (the half-space included); [10,20,0] / [5,10,50] gives 7.5  *)
(* at depth 20 and 25/3 (8.3333 within 0.001) at depth 30.                  *)
C2_ContinuousAtInterfaces ==
    (IsCall("depth_weighted_average") /\ DepthGiven) =>
        /\ \A k \in 1..(Len(thickness) - 1) :
              depth[1] = Cum(thickness, k) =>
                 /\ result = RDiv(LayerSum(thickness, soil_param, k),
                                  Num(depth[1]))
                 /\ \A v \in {Zero, Num(1000)} :
                       depth_weighted_average(thickness,
                           BelowReplaced(soil_param, k, v), depth[1]) = result
        /\ (thickness = <<10, 20, 0>>
            /\ soil_param = <<Num(5), Num(10), Num(50)>>) =>
              /\ depth = <<20>> => result = Rat(15, 2)
              /\ depth = <<30>> => /\ result = Rat(25, 3)
                                   /\ Within(result, Rat(83333, 10000),
                                             Rat(1, 1000))

C2_Witness ==
    /\ IsCall("depth_weighted_average")
    /\ thickness = <<10, 20, 0>>
    /\ soil_param = <<Num(5), Num(10), Num(50)>>
    /\ depth = <<30>>
    /\ result = Rat(25, 3)

(* C3: for a single-layer profile (homogeneous half-space) and depth > 0,  *)
(* depth_weighted_average returns exactly the layer's property and         *)
(* traveltime_average_velocity exactly the layer's velocity, whatever the  *)
(* depth and the thickness stored for the half-space.                      *)
C3_SingleLayer ==
    Len(thickness) = 1 =>
        /\ (IsCall("depth_weighted_average") /\ DepthGiven) =>
              result = soil_param[1]
        /\ (IsCall("traveltime_average_velocity") /\ VsDepth > 0) =>
              result = Num(s_velocity[1])

C3_Witness ==
    /\ IsCall("traveltime_average_velocity")
    /\ thickness = <<10>>
    /\ s_velocity = <<100>>
    /\ depth = <<50>>
    /\ result = Num(100)

(* C4: traveltime_average_velocity is the harmonic mean: depth divided by  *)
(* the vertical travel time SUM_i w_i / vs_i over the layers overlapping   *)
(* [0, depth]; for [5,10,10,20,0] / [200,300,350,650,1200] and depth 30 it *)
(* is within 0.01 of 317.13.                                               *)
C4_HarmonicMean ==
    (IsCall("traveltime_average_velocity") /\ VsDepth > 0) =>
        /\ result = RDiv(Num(VsDepth),
                         OverlapSum(thickness, Slowness(s_velocity), VsDepth,
                                    Len(thickness)))
        /\ (thickness = <<5, 10, 10, 20, 0>>
            /\ s_velocity = <<200, 300, 350, 650, 1200>>
            /\ depth = <<30>>) =>
              Within(result, Rat(31713, 100), Rat(1, 100))

C4_Witness ==
    /\ IsCall("traveltime_average_velocity")
    /\ thickness = <<5, 10, 10, 20, 0>>
    /\ s_velocity = <<200, 300, 350, 650, 1200>>
    /\ depth = <<30>>
    /\ result = Rat(327600, 1033)

(* C5: with a supplied depth > 0, compute_site_kappa is the depth-weighted *)
(* average of depth/(vs_i*qs_i) down to that same depth, so the depth      *)
(* cancels: the result is SUM_i w_i/(vs_i*qs_i) over the layers            *)
(* overlapping [0, depth]; [10,50,0] / [100,500,1000] / [10,20,100] at     *)
(* depth 100 is within 1e-5 of 0.01539, and the single layer vs = 100,     *)
(* qs = 10 at depth 50 gives 0.05.                                         *)
C5_KappaIsOverlapSum ==
    (IsCall("compute_site_kappa") /\ DepthGiven) =>
        /\ result = OverlapSum(thickness, InvQV(s_velocity, s_quality),
                               depth[1], Len(thickness))
        /\ (thickness = <<10, 50, 0>> /\ s_velocity = <<100, 500, 1000>>
            /\ s_quality = <<10, 20, 100>> /\ depth = <<100>>) =>
              Within(result, Rat(1539, 100000), Rat(1, 100000))
        /\ (thickness = <<0>> /\ s_velocity = <<100>> /\ s_quality = <<10>>
            /\ depth = <<50>>) =>
              result = Rat(5, 100)

C5_Witness ==
    /\ IsCall("compute_site_kappa")
    /\ thickness = <<10, 50, 0>>
    /\ s_velocity = <<100, 500, 1000>>
    /\ s_quality = <<10, 20, 100>>
    /\ depth = <<100>>
    /\ result = Rat(154, 10000)

(* C6: when the caller supplies no depth, compute_site_kappa averages down *)
(* to the top of the half-space: the depth is the sum of every thickness   *)
(* except the last, and the thickness stored for the half-space is not     *)
(* part of it; a supplied (non-zero) depth is used as given.               *)
C6_DefaultDepthIsTopOfHalfSpace ==
    IsCall("compute_site_kappa") =>
        LET z == IF depth = NoDepth THEN SumSeq(AllButLast(thickness))
                 ELSE depth[1]
        IN  (depth = NoDepth \/ depth[1] # 0) =>
               result = depth_weighted_average(thickness,
                            LayerKappa(s_velocity, s_quality, z), z)

----------------------------------------------------------------------------
(* Reference quantities used to state the properties of                    *)
(* impedance_amplification.                                                *)

(* the amplification a = sqrt(sq) * c4^(1/4) equals 1: a^4 = sq^2 * c4 = 1 *)
AmpIsOne(a) == RMul(RMul(a.sq, a.sq), a.c4) = One

(* lo <= sqrt(sq) <= hi for a vertical-incidence amplification (c4 = 1) *)
AmpBetween(a, lo, hi) ==
    /\ a.c4 = One
    /\ IsFinite(a.sq)
    /\ RLeq(RMul(lo, lo), a.sq)
    /\ RLeq(a.sq, RMul(hi, hi))

RefGiven(ref) == ref # NoRef /\ np_sum(ref) > 0

(* the reference in effect: the one supplied, else the last top element *)
RefInEffect(ref, top) == IF np_sum(ref) = 0 THEN Scalar(Last(top.v)) ELSE ref

(* C7: impedance_amplification returns exactly 1 when there is no impedance *)
(* contrast (ref_vs = top_vs and ref_dn = top_dn, all positive), for        *)
(* vertical incidence and for any incidence angle in [0, 90) degrees.       *)
C7_NoContrastIsOne ==
    (IsCall("impedance_amplification") /\ RefGiven(ref_vs) /\ RefGiven(ref_dn)) =>
        \A k \in 1..Len(imp_amp.v) :
            (Elem(ref_vs, k) = Elem(top_vs, k) /\ Elem(ref_dn, k) = Elem(top_dn, k))
                => AmpIsOne(imp_amp.v[k])

C7_Witness ==
    /\ IsCall("impedance_amplification")
    /\ top_vs = Scalar(200) /\ top_dn = Scalar(1900)
    /\ ref_vs = Scalar(200) /\ ref_dn = Scalar(1900)
    /\ inc_ang = 30
    /\ imp_amp = Scalar([sq |-> One, c4 |-> One])

(* C8: for vertical incidence and explicitly supplied positive references,  *)
(* impedance_amplification returns the non-negative a with                  *)
(* a^2 * (top_dn*top_vs) = ref_dn*ref_vs, so a > 1 exactly when the         *)
(* reference impedance exceeds the top impedance; top (200, 1900) against   *)
(* reference (1500, 2500) gives a within 0.01 of 3.14.                      *)
C8_VerticalSquareRootImpedance ==
    (IsCall("impedance_amplification") /\ inc_ang = 0
     /\ RefGiven(ref_vs) /\ RefGiven(ref_dn)) =>
        /\ \A k \in 1..Len(imp_amp.v) :
              LET a    == imp_amp.v[k]
                  ztop == Elem(top_dn, k) * Elem(top_vs, k)
                  zref == Elem(ref_dn, k) * Elem(ref_vs, k)
              IN  /\ a.c4 = One
                  /\ RMul(a.sq, Num(ztop)) = Num(zref)
                  /\ (~RLeq(a.sq, One)) <=> (zref > ztop)
        /\ (top_vs = Scalar(200) /\ top_dn = Scalar(1900)
            /\ ref_vs = Scalar(1500) /\ ref_dn = Scalar(2500)) =>
              AmpBetween(imp_amp.v[1], Rat(313, 100), Rat(315, 100))

C8_Witness ==
    /\ IsCall("impedance_amplification")
    /\ top_vs = Scalar(200) /\ top_dn = Scalar(1900)
    /\ ref_vs = Scalar(1500) /\ ref_dn = Scalar(2500)
    /\ inc_ang = 0
    /\ imp_amp = Scalar([sq |-> Rat(375, 38), c4 |-> One])

(* C9: a reference velocity (density) that is not given defaults to the     *)
(* last element of top_vs (top_dn), or to the scalar itself; the two        *)
(* defaults are applied independently, and with both omitted the last       *)
(* element of the vertical-incidence result is 1.                           *)
C9_DefaultReferenceIsLastTop ==
    IsCall("impedance_amplification") =>
        /\ imp_amp.v = impedance_amplification(top_vs, top_dn,
               IF ref_vs = NoRef THEN Scalar(Last(top_vs.v)) ELSE ref_vs,
               IF ref_dn = NoRef THEN Scalar(Last(top_dn.v)) ELSE ref_dn,
               inc_ang).v
        /\ (ref_vs = NoRef /\ RefGiven(ref_dn)) =>
              \A k \in 1..Len(imp_amp.v) :
                  imp_amp.v[k].sq = Rat(Elem(ref_dn, k) * Last(top_vs.v),
                                        Elem(top_dn, k) * Elem(top_vs, k))
        /\ (ref_dn = NoRef /\ RefGiven(ref_vs)) =>
              \A k \in 1..Len(imp_amp.v) :
                  imp_amp.v[k].sq = Rat(Last(top_dn.v) * Elem(ref_vs, k),
                                        Elem(top_dn, k) * Elem(top_vs, k))
        /\ (ref_vs = NoRef /\ ref_dn = NoRef /\ inc_ang = 0) =>
              Last(imp_amp.v) = [sq |-> One, c4 |-> One]

C9_Witness ==
    /\ IsCall("impedance_amplification")
    /\ top_vs = Array(<<200, 800, 2000>>)
    /\ top_dn = Array(<<1900, 2100, 2500>>)
    /\ ref_vs = NoRef /\ ref_dn = NoRef
    /\ inc_ang = 0
    /\ imp_amp.v[1] = [sq |-> Rat(5000000, 380000), c4 |-> One]
    /\ imp_amp.v[3] = [sq |-> One, c4 |-> One]

(* C10: impedance_amplification operates elementwise: for top_vs and top_dn *)
(* of length n it returns n values, the k-th being the result of the scalar *)
(* call on top_vs[k], top_dn[k], the references in effect and the angle;    *)
(* tops (200,1900), (800,2100), (2000,2500) against reference (2000, 2500)  *)
(* give about 3.63, 1.72 and 1.                                             *)
C10_Elementwise ==
    (IsCall("impedance_amplification") /\ top_vs.arr /\ top_dn.arr) =>
        /\ imp_amp.arr
        /\ Len(imp_amp.v) = Len(top_vs.v)
        /\ \A k \in 1..Len(top_vs.v) :
              imp_amp.v[k] =
                  impedance_amplification(Scalar(top_vs.v[k]), Scalar(top_dn.v[k]),
                                          RefInEffect(ref_vs, top_vs),
                                          RefInEffect(ref_dn, top_dn),
                                          inc_ang).v[1]
        /\ (top_vs = Array(<<200, 800, 2000>>)
            /\ top_dn = Array(<<1900, 2100, 2500>>)
            /\ ref_vs = Scalar(2000) /\ ref_dn = Scalar(2500) /\ inc_ang = 0) =>
              /\ AmpBetween(imp_amp.v[1], Rat(362, 100), Rat(364, 100))
              /\ AmpBetween(imp_amp.v[2], Rat(171, 100), Rat(173, 100))
              /\ AmpBetween(imp_amp.v[3], Rat(99, 100), Rat(101, 100))

C10_Witness ==
    /\ IsCall("impedance_amplification")
    /\ top_vs = Array(<<200, 800, 2000>>)
    /\ top_dn = Array(<<1900, 2100, 2500>>)
    /\ ref_vs = Scalar(2000) /\ ref_dn = Scalar(2500)
    /\ inc_ang = 0
    /\ Len(imp_amp.v) = 3
    /\ imp_amp.v[2] = [sq |-> Rat(5000000, 1680000), c4 |-> One]

----------------------------------------------------------------------------
(* C11: impedance_amplification distinguishes an absent reference from a    *)
(* zero-valued one: a reference velocity or density explicitly supplied as  *)
(* 0 is used as given (the impedance ratio then has a zero factor) and is   *)
(* not replaced by the default taken from the top array; likewise a depth   *)
(* of 0 supplied to compute_site_kappa is used as the averaging depth.      *)
C11_ZeroIsNotAbsent ==
    /\ IsCall("impedance_amplification") =>
          \A k \in 1..Len(imp_amp.v) :
              /\ ref_vs = Scalar(0) => imp_amp.v[k].sq = Zero
              /\ ref_dn = Scalar(0) => imp_amp.v[k].sq = Zero
    /\ (IsCall("compute_site_kappa") /\ depth = <<0>>) =>
          result = depth_weighted_average(thickness,
                       LayerKappa(s_velocity, s_quality, 0), 0)

----------------------------------------------------------------------------
(* Reference quantities used to state the properties of                    *)
(* sh_transfer_function.                                                   *)

TfCall == IsCall("sh_transfer_function")

TfCvs == ComplexVs(tf_vs, tf_qs)

(* top of layer i (1-based): the thicknesses above it, summed *)
TfTop(i) == Cum(tf_hl, i - 1)

(* the depths at which the call evaluates the displacement *)
TfTargets == TargetDepths(tf_depth, [i \in 1..Len(tf_hl) |-> TfTop(i)])

(* the layer matrix of frequency f is singular *)
SingularAt(f) ==
    linalg_solve(LayMatOf([r \in 1..(2 * Len(tf_hl)) |->
                              [c \in 1..(2 * Len(tf_hl)) |-> CZero]],
                          f, tf_hl, ShearModulus(tf_dn, TfCvs),
                          HorizontalSlowness(PropagationSines(TfCvs, inc_ang),
                                             TfCvs)),
                 [k \in 1..(2 * Len(tf_hl)) |->
                     IF k = 2 * Len(tf_hl) THEN COne ELSE CZero]).singular

NonSingular(f) == ~SingularAt(f)

(* the call with another frequency axis on the same profile and depths *)
TfWithAxis(axis) ==
    sh_transfer_function(Array(axis), tf_hl, tf_vs, tf_dn, tf_qs, inc_ang,
                         tf_depth)

----------------------------------------------------------------------------
(* C12: when the layer matrix of a frequency is singular, every depth      *)
(* entry of that frequency's column of the result is NaN; the call still   *)
(* returns a full matrix (one row per depth, one column per frequency),    *)
(* and the column of every other frequency, before or after the failing    *)
(* one, equals the column the call gives when the failing frequencies are  *)
(* taken out of the axis.                                                  *)
C12_SingularColumnIsNaN ==
    TfCall =>
        LET fr   == tf_freq.v
            kept == SelectSeq(fr, NonSingular)
            ref  == TfWithAxis(kept).DisMat
            rank(k) == Len(SelectSeq(SubSeq(fr, 1, k), NonSingular))
        IN  /\ Len(tf_DisMat) = Len(TfTargets)
            /\ \A nz \in 1..Len(tf_DisMat) :
                  /\ Len(tf_DisMat[nz]) = Len(fr)
                  /\ \A k \in 1..Len(fr) :
                        IF SingularAt(fr[k])
                        THEN ~IsFinite(tf_DisMat[nz][k].abs2)
                        ELSE /\ IsFinite(tf_DisMat[nz][k].abs2)
                             /\ tf_DisMat[nz][k] = ref[nz][rank(k)]

(* a call whose axis holds a singular frequency followed by a regular one *)
C12_Witness ==
    /\ TfCall
    /\ \E k \in 1..Len(tf_freq.v), j \in 1..Len(tf_freq.v) :
          /\ k < j
          /\ SingularAt(tf_freq.v[k])
          /\ NonSingular(tf_freq.v[j])
          /\ \A nz \in 1..Len(tf_DisMat) :
                /\ ~IsFinite(tf_DisMat[nz][k].abs2)
                /\ IsFinite(tf_DisMat[nz][j].abs2)

(* C13: the column of frequency f_i depends on f_i and the profile only:   *)
(* it equals the column of the call whose axis is f_i alone, displacement  *)
(* and stored magnitude alike, whatever the other frequencies of the axis  *)
(* and their order are; each (depth, frequency) cell is written once.      *)
C13_ColumnsIndependent ==
    TfCall =>
        \A k \in 1..Len(tf_freq.v) :
            LET one == TfWithAxis(<<tf_freq.v[k]>>)
            IN  \A nz \in 1..Len(tf_DisMat) :
                    /\ tf_DisMat[nz][k] = one.DisMat[nz][1]
                    /\ tf_dis[nz][k] = one.dis[nz][1]
                    /\ tf_writes[nz][k] = 1

(* a call on two different frequencies, the second with a singular matrix, *)
(* so that the buffers of the first are still there when it fails          *)
C13_Witness ==
    /\ TfCall
    /\ Len(tf_freq.v) >= 2
    /\ tf_freq.v[1] # tf_freq.v[2]
    /\ NonSingular(tf_freq.v[1])
    /\ SingularAt(tf_freq.v[2])
    /\ Len(tf_DisMat) >= 1
    /\ tf_writes[1][2] = 1

(* C14: for a depth d >= 0 the lookup selects layer 0 with local depth d   *)
(* when d is not beyond the first interface, the half-space with local     *)
(* depth d - bounds[L-1] when d is beyond the last interface, and          *)
(* otherwise the one layer nl with bounds[nl] < d <= bounds[nl+1], local   *)
(* depth d - bounds[nl]; in every case the top of the layer plus the local *)
(* depth is d, the local depth of a finite layer lies within its           *)
(* thickness, and a layer is always found.                                 *)
C14_LayerLookup ==
    IsCall("depth lookup") =>
        \A nz \in 1..Len(tf_lookup) :
            LET L  == Len(tf_hl)
                d  == tf_lookup[nz].depth
                nl == tf_lookup[nz].nl
                dh == tf_lookup[nz].dh
            IN  /\ nl \in 0..(L - 1)
                /\ TfTop(nl + 1) + dh = d
                /\ nl < L - 1 => (0 <= dh /\ dh <= tf_hl[nl + 1])
                /\ (L >= 2 /\ d <= TfTop(2)) => (nl = 0 /\ dh = d)
                /\ d > TfTop(L) => (nl = L - 1 /\ dh = d - TfTop(L))
                /\ (L >= 2 /\ d > TfTop(2) /\ d <= TfTop(L)) =>
                      /\ TfTop(nl + 1) < d
                      /\ d <= TfTop(nl + 2)
                      /\ \A j \in 0..(L - 2) :
                            (TfTop(j + 1) < d /\ d <= TfTop(j + 2)) => j = nl

(* a depth strictly inside the second of three layers, found by the search *)
C14_Witness ==
    /\ IsCall("depth lookup")
    /\ Len(tf_hl) = 3
    /\ Len(tf_lookup) = 1
    /\ tf_lookup[1].depth > TfTop(2)
    /\ tf_lookup[1].depth < TfTop(3)
    /\ tf_lookup[1].nl = 1
    /\ tf_lookup[1].dh > 0

(* C15: with the sentinel depth -1 the result has one row per layer, at    *)
(* the depths 0 (free surface) and the cumulative sums of the thicknesses  *)
(* of all layers but the last, so that the thickness stored for the last   *)
(* layer plays no part; with a scalar depth >= 0 it has one row, at that   *)
(* depth.                                                                  *)
C15_InterfaceDepths ==
    (TfCall /\ ~tf_depth.arr) =>
        IF tf_depth.v[1] < 0
        THEN /\ Len(tf_DisMat) = Len(tf_hl)
             /\ Len(tf_lookup) = Len(tf_hl)
             /\ tf_lookup[1].depth = 0
             /\ \A nz \in 1..Len(tf_hl) :
                   tf_lookup[nz].depth = SumSeq(SubSeq(tf_hl, 1, nz - 1))
        ELSE /\ Len(tf_DisMat) = 1
             /\ Len(tf_lookup) = 1
             /\ tf_lookup[1].depth = tf_depth.v[1]

(* the sentinel on a two-layer profile whose half-space is stored with a   *)
(* thickness                                                               *)
C15_Witness ==
    /\ TfCall
    /\ tf_depth = Scalar(-1)
    /\ Len(tf_hl) = 2
    /\ tf_hl[1] > 0
    /\ tf_hl[2] > 0
    /\ Len(tf_DisMat) = 2
    /\ tf_lookup[2].depth = tf_hl[1]

(* C16: for one elastic layer (a half-space) at vertical incidence both    *)
(* amplitudes are 1 and the magnitude of the surface displacement is 2 at  *)
(* every frequency; through Site1D the spectrum is 1.                      *)
C16_HalfSpaceDoubling ==
    /\ (TfCall /\ Len(tf_hl) = 1 /\ tf_qs = NoQs /\ inc_ang = 0) =>
          /\ Len(tf_freq.v) > 0 => tf_AmpVec = <<COne, COne>>
          /\ \A nz \in 1..Len(tf_DisMat) :
                tf_lookup[nz].depth = 0 =>
                    \A k \in 1..Len(tf_freq.v) :
                        tf_DisMat[nz][k] = [abs2 |-> Num(4)]
    /\ (IsCall("Site1D.sh_transfer_function") /\ Len(tf_hl) = 1
            /\ (elastic \/ tf_qs = NoQs) /\ inc_ang = 0
            /\ shtf.raised = "") =>
          \A k \in 1..Len(shtf.v) : shtf.v[k] = [abs2 |-> One]

(* a half-space evaluated at the surface at 0 and 10 Hz *)
C16_Witness ==
    /\ TfCall
    /\ Len(tf_hl) = 1
    /\ tf_qs = NoQs
    /\ tf_freq = Array(<<0, 10>>)
    /\ tf_depth = Scalar(0)
    /\ tf_AmpVec = <<COne, COne>>
    /\ tf_DisMat[1][2] = [abs2 |-> Num(4)]

(* the closed form for the top layer of a two-layer profile over its       *)
(* half-space, vertical incidence                                          *)
TwoLayerImpedanceAmplification ==
    impedance_amplification(Array(<<tf_vs[1]>>), Array(<<tf_dn[1]>>),
                            Scalar(tf_vs[2]), Scalar(tf_dn[2]), 0).v[1]

(* a two-layer elastic profile at vertical incidence, positive densities *)
TwoLayerElastic ==
    /\ TfCall
    /\ Len(tf_hl) = 2
    /\ tf_qs = NoQs
    /\ inc_ang = 0
    /\ tf_dn[1] > 0
    /\ tf_dn[2] > 0

(* tolerance on the square of the amplitude ratio: 0.2, about 10 % of an   *)
(* amplitude near 1                                                        *)
C17_Tolerance == Rat(1, 5)

(* C17: for a two-layer elastic profile at vertical incidence, the         *)
(* amplification impedance_amplification gives for the top layer over the  *)
(* half-space is within tolerance of the zero-frequency surface ratio of   *)
(* sh_transfer_function (magnitude of the surface displacement over 2);    *)
(* both are compared by their squares.                                     *)
C17_ImpedanceMatchesZeroFrequency ==
    TwoLayerElastic =>
        \A nz \in 1..Len(tf_DisMat), k \in 1..Len(tf_freq.v) :
            (tf_lookup[nz].depth = 0 /\ tf_freq.v[k] = 0) =>
                Within(TwoLayerImpedanceAmplification.sq,
                       RDiv(tf_DisMat[nz][k].abs2, Num(4)), C17_Tolerance)

(* C17, amended: for a two-layer elastic profile at vertical incidence the *)
(* zero-frequency surface ratio of sh_transfer_function is exactly 1       *)
(* whatever the impedance contrast, so impedance_amplification, the square *)
(* root of the impedance ratio, equals it exactly when the two impedances  *)
(* are equal and not otherwise.                                            *)
C17_ZeroFrequencyRatioIsOne ==
    TwoLayerElastic =>
        \A nz \in 1..Len(tf_DisMat), k \in 1..Len(tf_freq.v) :
            (tf_lookup[nz].depth = 0 /\ tf_freq.v[k] = 0) =>
                /\ RDiv(tf_DisMat[nz][k].abs2, Num(4)) = One
                /\ TwoLayerImpedanceAmplification.sq = One
                      <=> tf_dn[1] * tf_vs[1] = tf_dn[2] * tf_vs[2]

(* a soft layer over a stiffer half-space, evaluated at the surface at     *)
(* zero frequency: ratio 1, closed form sqrt(2)                            *)
C17_Witness ==
    /\ TwoLayerElastic
    /\ tf_depth = Scalar(0)
    /\ tf_freq.v = <<0>>
    /\ tf_dn[1] * tf_vs[1] < tf_dn[2] * tf_vs[2]
    /\ tf_DisMat[1][1] = [abs2 |-> Num(4)]
    /\ TwoLayerImpedanceAmplification.sq = Num(2)

(* the stored real magnitude m is the complex number c *)
HoldsComplex(m, c) ==
    IF CIsFinite(c)
    THEN c.im = Zero /\ RLeq(Zero, c.re) /\ m.abs2 = RMul(c.re, c.re)
    ELSE ~IsFinite(m.abs2)

(* C18: sh_transfer_function records for each (depth, frequency) pair the  *)
(* complex displacement, the sum of the down-going and up-going terms with *)
(* their phase factors, and a Site1D.sh_transfer_function call with        *)
(* complex=True stores that complex value, halved, phase included.         *)
C18_ComplexDisplacementRecorded ==
    /\ TfCall =>
          \A nz \in 1..Len(tf_DisMat), k \in 1..Len(tf_freq.v) :
              HoldsComplex(tf_DisMat[nz][k], tf_dis[nz][k])
    /\ (IsCall("Site1D.sh_transfer_function") /\ complex
            /\ shtf.raised = "") =>
          \A k \in 1..Len(shtf.v) :
              HoldsComplex(shtf.v[k], CDiv(tf_dis[1][k], CNum(2)))

(* C19: the sine of the half-space's propagation angle is the sine of      *)
(* inc_ang converted from degrees to radians, sin(theta_l)/v_l is the same *)
(* in every layer, and inc_ang = 0 gives a zero sine in every layer.       *)
C19_IncidenceInDegrees ==
    IsCall("propagation angles") =>
        LET L   == Len(tf_vs)
            cvs == ComplexVs(tf_vs, tf_qs)
        IN  /\ tf_iA[L].coef = COne
            /\ tf_iA[L].of = np_sin(Ang(inc_ang, "pi/180"))
            /\ \A l \in 1..L :
                  /\ tf_iA[l].of = tf_iA[L].of
                  /\ CDiv(tf_iA[l].coef, cvs[l]) = CDiv(tf_iA[L].coef, cvs[L])
            /\ inc_ang = 0 => \A l \in 1..L : SineIsZero(tf_iA[l])

----------------------------------------------------------------------------
(* Reference quantities used to state the properties of                    *)
(* quarter_wavelength_velocity.                                            *)

QwlCall == IsCall("quarter_wavelength_velocity")

(* v_avg(z)/(4 f): a quarter of the wavelength of frequency f at the       *)
(* harmonic average velocity down to z                                     *)
QuarterWavelength(z, f) ==
    RDiv(traveltime_average_velocity(thickness, s_velocity, z), Num(4 * f))

(* C20: for f > 0 and positive velocities the upper bound of the search is *)
(* the largest vs/(4f) of the profile, no quarter wavelength               *)
(* v_avg(z)/(4f), z > 0, exceeds it, and z - v_avg(z)/(4f) changes sign    *)
(* between a shallow depth and the bound, so that a depth with             *)
(* z = v_avg(z)/(4f) lies in the bracket; the depth the search returns     *)
(* lies in the bracket too.                                                *)
C20_BoundBracketsRoot ==
    (QwlCall /\ qwl_raised = NoError /\ frequency[qwl_nf] > 0) =>
        LET f   == frequency[qwl_nf]
            top == qwl_ubnd.n \div qwl_ubnd.d
        IN  /\ IsFinite(qwl_ubnd)
            /\ \E l \in 1..Len(s_velocity) :
                  qwl_ubnd = Rat(s_velocity[l], 4 * f)
            /\ \A l \in 1..Len(s_velocity) :
                  RLeq(Rat(s_velocity[l], 4 * f), qwl_ubnd)
            /\ \A z \in 1..MaxQwlDepth :
                  RLeq(QuarterWavelength(z, f), qwl_ubnd)
            /\ RLeq(Num(1), QuarterWavelength(1, f))
            /\ RLeq(QuarterWavelength(top, f), Num(top))
            /\ RLeq(Num(top), qwl_ubnd)
            /\ RLeq(Zero, Last(qwl_depth))
            /\ RLeq(Last(qwl_depth), qwl_ubnd)

(* a layered profile at the second frequency of the axis, its bound set by *)
(* the fastest layer, which is not the top one                             *)
C20_Witness ==
    /\ QwlCall
    /\ qwl_nf = 2
    /\ Len(s_velocity) >= 2
    /\ thickness[1] > 0
    /\ qwl_ubnd = Rat(s_velocity[2], 4 * frequency[2])
    /\ s_velocity[1] < s_velocity[2]
    /\ ~RLeq(qwl_ubnd, QuarterWavelength(1, frequency[2]))
    /\ IsFinite(qwl_misfit)

----------------------------------------------------------------------------
(* The outcome of a quarter-wavelength call.                               *)

QwaCall == IsCall("quarter_wavelength_average")

(* the loop ran over the whole axis and the arrays were returned *)
QwlReturned == qwl_raised = NoError /\ qwl_nf = Len(frequency)

(* the call is over: it returned or it raised *)
QwlFinished == qwl_raised # NoError \/ qwl_nf = Len(frequency)

DensityR == [i \in 1..Len(s_density) |-> Num(s_density[i])]

(* the overlap-weighted mean of a property down to the whole depth z *)
OverlapMean(sp, z) ==
    RDiv(OverlapSum(thickness, sp, z, Len(thickness)), Num(z))

(* entry k of the returned arrays is a result for frequency k: a depth of  *)
(* that frequency's bracket and the harmonic average velocity down to it   *)
ValidEntry(k) ==
    LET z == qwl_depth[k]
        f == frequency[k]
    IN  /\ IsFinite(z)
        /\ z.d = 1
        /\ RLeq(One, z)
        /\ \E l \in 1..Len(s_velocity) : RLeq(z, Rat(s_velocity[l], 4 * f))
        /\ qwl_velocity[k] = RDiv(One, OverlapMean(Slowness(s_velocity), z.n))

C22_FailureIsolated ==
    (QwlCall /\ QwlFinished) =>
        /\ QwlReturned
        /\ \A k \in 1..Len(frequency) :
              IF frequency[k] > 0 THEN ValidEntry(k)
              ELSE ~IsFinite(qwl_velocity[k])

----------------------------------------------------------------------------
(* Malformed profiles.                                                     *)

(* a layer above the half-space with a thickness that is not positive, or  *)
(* property arrays that are not as long as the thickness array             *)
MalformedProfile ==
    \/ \E i \in 1..(Len(thickness) - 1) : thickness[i] <= 0
    \/ Len(soil_param) # Len(thickness)
    \/ Len(s_velocity) # Len(thickness)
    \/ Len(s_quality) # Len(thickness)

(* C23: depth_weighted_average, traveltime_average_velocity and            *)
(* compute_site_kappa called with a malformed profile report it and return *)
(* no number: the result is never a finite value.                          *)
C23_MalformedProfileIsReported ==
    (call \in {"depth_weighted_average", "traveltime_average_velocity",
               "compute_site_kappa"} /\ MalformedProfile) =>
        ~IsFinite(result)

----------------------------------------------------------------------------
(* Model.add_layer and Model.del_layer on one model, starting from         *)
(* Model(): the lists and dictionaries of the demo, shorter and longer     *)
(* ones, and indexes inside and outside the profile.                       *)

(* the lists and dictionaries given to add_layer, and a tuple *)
LayerData ==
    << ListData(<<>>),
       ListData(<<Num(10), Num(300), Num(200), Num(1900)>>),
       ListData(<<Num(0), Num(1000), Num(800), Num(2100), Num(100),
                  Num(50)>>),
       ListData(<<Num(10), Num(500), Num(300), Num(1900), Num(50), Num(20),
                  Num(7)>>),
       DictData([hl |-> Num(10), vp |-> Num(300), vs |-> Num(200),
                 dn |-> Num(1900)]),
       DictData([hl |-> Num(0), vp |-> Num(1000), vs |-> Num(800),
                 dn |-> Num(2100), qp |-> Num(100), qs |-> Num(50)]),
       DictData([vs |-> Num(200)]),
       DictData([hl |-> Num(10), id |-> Num(1)]),
       [kind |-> "tuple", v |-> <<Num(10), Num(300)>>] >>

LayerIndexes ==
    { Num(-1), Num(-3), Num(0), Num(1), Rat(3, 2), Num(MaxModelLayers + 1) }

ModelInputs ==
    /\ call = "none"
    /\ geo = geo_init
    /\ geo_pre = geo_init
    /\ layer_call = [op |-> "none"]

InitModel ==
    ModelInputs /\ AvgIdle /\ AmpIdle /\ TfIdle /\ QwlIdle /\ SiteIdle
    /\ MemIdle

AddLayer ==
    /\ Len(geo.hl) < MaxModelLayers
    /\ \E d \in 1..Len(LayerData), index \in LayerIndexes :
          \E out \in { add_layer(geo, LayerData[d], index) } :
             /\ geo' = out.geo
             /\ layer_call' = [op |-> "add_layer", data |-> LayerData[d],
                               index |-> index, raised |-> out.raised]
    /\ geo_pre' = geo
    /\ call' = "add_layer"
    /\ UNCHANGED <<thickness, soil_param, s_velocity, s_quality, depth,
                   result>>
    /\ UNCHANGED <<ampVars, tfVars, qwlVars, siteVars, memVars>>

DelLayer ==
    /\ \E index \in LayerIndexes :
          \E out \in { del_layer(geo, index) } :
             /\ geo' = out.geo
             /\ layer_call' = [op |-> "del_layer", data |-> ListData(<<>>),
                               index |-> index, raised |-> out.raised]
    /\ geo_pre' = geo
    /\ call' = "del_layer"
    /\ UNCHANGED <<thickness, soil_param, s_velocity, s_quality, depth,
                   result>>
    /\ UNCHANGED <<ampVars, tfVars, qwlVars, siteVars, memVars>>

NextModel ==
    \/ AddLayer
    \/ DelLayer

SpecModel == InitModel /\ [][NextModel]_vars

----------------------------------------------------------------------------
(* Reference quantities used to state the properties of the layer methods. *)

GeoKeys == { GEO_KEYS[I] : I \in 1..Len(GEO_KEYS) }

KeyNumber(K) == CHOOSE I \in 1..Len(GEO_KEYS) : GEO_KEYS[I] = K

SameLength(g) == \A K \in GeoKeys : Len(g[K]) = Len(g.hl)

(* the dictionary that names the values of a list by GEO_KEYS, in order *)
DictOfList(v) ==
    [K \in { GEO_KEYS[I] : I \in 1..Min(Len(v), Len(GEO_KEYS)) } |->
        v[KeyNumber(K)]]

(* s without its element number at (from 1) *)
Without(sq, at) == [k \in 1..(Len(sq) - 1) |-> IF k < at THEN sq[k] ELSE sq[k + 1]]

(* C27: the six arrays of a model always have one length; add_layer with a *)
(* list or a dictionary that does not raise makes every array one longer,  *)
(* the new element being the value given for the key or NaN, the others    *)
(* kept in order, and a list does what the dictionary of its values by     *)
(* GEO_KEYS does; del_layer that does not raise makes every array one      *)
(* shorter; a call that raises leaves every array as it was.               *)
C27_LayersStayAligned ==
    /\ SameLength(geo)
    /\ layer_call.op \in {"add_layer", "del_layer"} =>
          IF layer_call.raised # NoError THEN geo = geo_pre
          ELSE IF layer_call.op = "del_layer"
          THEN \A K \in GeoKeys : Len(geo[K]) = Len(geo_pre[K]) - 1
          ELSE layer_call.data.kind \in {"list", "dict"} =>
             LET data == layer_call.data
                 ix   == py_int(layer_call.index)
                 at   == IF ix < 0 THEN Len(geo_pre.hl) + 1 ELSE ix + 1
             IN  /\ \A K \in GeoKeys :
                       /\ Len(geo[K]) = Len(geo_pre[K]) + 1
                       /\ Without(geo[K], at) = geo_pre[K]
                       /\ geo[K][at] =
                             IF data.kind = "dict"
                             THEN IF K \in DOMAIN data.v THEN data.v[K]
                                  ELSE NaN
                             ELSE IF KeyNumber(K) <= Len(data.v)
                                  THEN data.v[KeyNumber(K)] ELSE NaN
                 /\ data.kind = "list" =>
                       geo = add_layer(geo_pre, DictData(DictOfList(data.v)),
                                       layer_call.index).geo

(* a dictionary without quality factors added on top of a one-layer model *)
C27_Witness ==
    /\ layer_call.op = "add_layer"
    /\ layer_call.raised = NoError
    /\ layer_call.data.kind = "dict"
    /\ layer_call.index = Num(0)
    /\ Len(geo_pre.hl) = 1
    /\ geo.vs = <<Num(200), Num(800)>>
    /\ geo.qs = <<NaN, Num(50)>>

----------------------------------------------------------------------------
(* Site1D.read_model, add_model and del_model on one site, starting from   *)
(* Site1D(): two model files in the default format of from_file and a path *)
(* without a file.                                                         *)

FileNames == {"data/site01.csv", "data/site02.csv", "data/site03.csv"}

FileSystem ==
    [name \in FileNames |->
        CASE name = "data/site01.csv" ->
                [exists |-> TRUE,
                 lines |-> << [comment |-> FALSE,
                               fields |-> <<"hl", "vp", "vs", "dn">>],
                              [comment |-> FALSE,
                               fields |-> << <<1, 0>>, <<3, 0, 0>>,
                                             <<2, 0, 0>>, <<1, 9, 0, 0>> >>],
                              [comment |-> FALSE,
                               fields |-> << <<0>>, <<1, 0, 0, 0>>,
                                             <<8, 0, 0>>, <<2, 1, 0, 0>> >>] >>]
          [] name = "data/site02.csv" ->
                [exists |-> TRUE,
                 lines |-> << [comment |-> TRUE, fields |-> <<"# site 2">>],
                              [comment |-> FALSE, fields |-> <<"hl", "vs">>],
                              [comment |-> FALSE,
                               fields |-> << <<0>>, <<5, 0, 0>> >>] >>]
          [] OTHER -> [exists |-> FALSE, lines |-> <<>>]]

FileLists == UNION { [1..n -> FileNames] : n \in 1..2 }

ModelIndexes == {-1, 0, 1}

ReadInputs ==
    /\ call = "none"
    /\ site_model = <<>>
    /\ site_pre = <<>>
    /\ site_freq = <<>>
    /\ site_mean = Model_init
    /\ site_call = [op |-> "none"]

InitRead ==
    ReadInputs /\ AvgIdle /\ AmpIdle /\ TfIdle /\ QwlIdle /\ LayerIdle
    /\ MemIdle

ReadModel ==
    /\ \E ascii_file \in FileLists, index \in ModelIndexes, owrite \in BOOLEAN :
          /\ owrite \/ Len(site_model) + Len(ascii_file) <= MaxModels
          /\ \E out \in { read_model(site_model, FileSystem, ascii_file,
                                     index, owrite) } :
                /\ site_model' = out.model
                /\ site_call' = [op |-> "read_model", files |-> ascii_file,
                                 index |-> index, owrite |-> owrite,
                                 raised |-> out.raised,
                                 printed |-> out.printed]
    /\ site_pre' = site_model
    /\ call' = "read_model"
    /\ UNCHANGED <<site_freq, site_mean>>
    /\ UNCHANGED <<avgVars, ampVars, tfVars, qwlVars, layerVars, memVars>>

AddModel ==
    /\ Len(site_model) < MaxModels
    /\ \E index \in ModelIndexes :
          /\ site_model' = add_model(site_model, NoModel, Num(index))
          /\ site_call' = [op |-> "add_model", files |-> <<>>,
                           index |-> index, owrite |-> FALSE,
                           raised |-> NoError, printed |-> <<>>]
    /\ site_pre' = site_model
    /\ call' = "add_model"
    /\ UNCHANGED <<site_freq, site_mean>>
    /\ UNCHANGED <<avgVars, ampVars, tfVars, qwlVars, layerVars, memVars>>

DelModel ==
    /\ \E index \in ModelIndexes :
          \E out \in { del_model(site_model, Num(index)) } :
             /\ site_model' = out.model
             /\ site_call' = [op |-> "del_model", files |-> <<>>,
                              index |-> index, owrite |-> FALSE,
                              raised |-> out.raised, printed |-> <<>>]
    /\ site_pre' = site_model
    /\ call' = "del_model"
    /\ UNCHANGED <<site_freq, site_mean>>
    /\ UNCHANGED <<avgVars, ampVars, tfVars, qwlVars, layerVars, memVars>>

NextRead ==
    \/ ReadModel
    \/ AddModel
    \/ DelModel

SpecRead == InitRead /\ [][NextRead]_vars

----------------------------------------------------------------------------
(* Reference quantities used to state the properties of read_model.        *)

(* the files of the list that can be opened, in the order of the list *)
OpenedFiles(files) == SelectSeq(files, LAMBDA f : FileSystem[f].exists)

(* the models read from them *)
ModelsRead(files) ==
    [i \in 1..Len(OpenedFiles(files)) |->
        from_file(Model_init, FileSystem[OpenedFiles(files)[i]]).model]

(* the position in a list of n models that index asks for *)
RequestedPosition(index, n) == IF index < 0 THEN n ELSE Min(index, n)

(* C28: after read_model returns, a file that cannot be opened has put no  *)
(* model into the list and has overwritten none; the models read from the  *)
(* other files stand in the order of the file list at the requested        *)
(* position (without owrite), or the last of them stands at the index      *)
(* (with owrite), and the rest of the list is as it was.                   *)
C28_FailedReadLeavesListUnchanged ==
    (site_call.op = "read_model" /\ site_call.raised = NoError) =>
        With(ModelsRead(site_call.files), LAMBDA rd :
        IF rd = <<>> THEN site_model = site_pre
        ELSE IF site_call.owrite
        THEN site_model =
                list_setitem(site_pre, site_call.index, Last(rd)).model
        ELSE With(RequestedPosition(site_call.index, Len(site_pre)),
                  LAMBDA at :
                  site_model = SubSeq(site_pre, 1, at) \o rd
                               \o SubSeq(site_pre, at + 1, Len(site_pre))))

----------------------------------------------------------------------------
(* The computations of Site1D on a site of one or two models built with    *)
(* add_layer, among them a model without layers, with and without a        *)
(* frequency axis.                                                         *)

RECURSIVE AddLayers(_, _, _)
AddLayers(g, layers, n) ==
    IF n > Len(layers) THEN g
    ELSE AddLayers(add_layer(g, ListData(layers[n]), Num(-1)).geo, layers,
                   n + 1)

ModelOf(layers) == [Model_init EXCEPT !.geo = AddLayers(geo_init, layers, 1)]

SoftSite ==
    ModelOf(<< <<Num(10), Num(300), Num(200), Num(1900), Num(50), Num(20)>>,
               <<Num(0), Num(1000), Num(800), Num(2100), Num(100),
                 Num(50)>> >>)

StiffSite ==
    ModelOf(<< <<Num(20), Num(500), Num(300), Num(1900), Num(50), Num(20)>>,
               <<Num(0), Num(1200), Num(600), Num(2000), Num(100),
                 Num(50)>> >>)

Sites ==
    { <<SoftSite>>, <<SoftSite, StiffSite>>, <<StiffSite, SoftSite>>,
      <<Model_init>>, <<SoftSite, Model_init>> }

SiteAxes == { <<5>> }

VszDepths == {30, 10}

SiteKappaDepths == { NoDepth, <<10>> }

SiteReferences ==
    { [vs_ref |-> NoRef, dn_ref |-> NoRef],
      [vs_ref |-> Scalar(Num(1000)), dn_ref |-> Scalar(Num(2500))] }

NoSiteCall ==
    [op |-> "none", args |-> <<>>, raised |-> NoError, printed |-> <<>>,
     calls |-> <<>>, count |-> 0]

SiteInputs ==
    /\ call = "none"
    /\ site_model \in Sites
    /\ site_pre = site_model
    /\ site_freq \in { <<>> } \cup SiteAxes
    /\ site_mean = Model_init
    /\ site_call = NoSiteCall

InitSite ==
    SiteInputs /\ AvgIdle /\ AmpIdle /\ TfIdle /\ QwlIdle /\ LayerIdle
    /\ MemIdle

(* a method of Site1D called with args has left out *)
SiteCall(op, args, out) ==
    /\ site_call.count < MaxSiteCalls
    /\ site_model' = out.model
    /\ site_mean' = out.mean
    /\ site_pre' = site_model
    /\ site_call' = [op |-> op, args |-> args, raised |-> out.raised,
                     printed |-> out.printed, calls |-> out.calls,
                     count |-> site_call.count + 1]
    /\ call' = op
    /\ UNCHANGED site_freq
    /\ UNCHANGED <<avgVars, ampVars, tfVars, qwlVars, layerVars, memVars>>

(* Site1D.frequency_axis: self.freq becomes the axis *)
FrequencyAxis ==
    /\ site_call.count < MaxSiteCalls
    /\ site_freq' \in SiteAxes
    /\ site_pre' = site_model
    /\ site_call' = [op |-> "frequency_axis", args |-> <<>>,
                     raised |-> NoError, printed |-> <<>>, calls |-> <<>>,
                     count |-> site_call.count + 1]
    /\ call' = "frequency_axis"
    /\ UNCHANGED <<site_model, site_mean>>
    /\ UNCHANGED <<avgVars, ampVars, tfVars, qwlVars, layerVars, memVars>>

TraveltimeVelocity ==
    \E z \in VszDepths :
       SiteCall("traveltime_velocity", <<z>>,
                traveltime_velocity(site_model, site_mean, z))

ComputeSoilClass ==
    SiteCall("compute_soil_class", <<"EC8">>,
             compute_soil_class(site_model, site_mean, "EC8"))

QuarterWavelengthAverage ==
    \E out \in Site1D_quarter_wavelength_average(site_model, site_mean,
                                                 site_freq) :
       SiteCall("quarter_wavelength_average", <<>>, out)

QuarterWavelengthAmplification ==
    \E ref \in SiteReferences :
       SiteCall("quarter_wavelength_amplification",
                <<ref.vs_ref, ref.dn_ref, 0>>,
                quarter_wavelength_amplification(site_model, site_mean,
                    ref.vs_ref, ref.dn_ref, 0))

SiteComputeSiteKappa ==
    \E dp \in SiteKappaDepths :
       SiteCall("compute_site_kappa", <<dp>>,
                Site1D_compute_site_kappa(site_model, site_mean, dp))

AttenuationDecay ==
    SiteCall("attenuation_decay", <<>>,
             attenuation_decay(site_model, site_mean, site_freq))

SiteShTransferFunction ==
    \E el \in BOOLEAN, cx \in BOOLEAN :
       SiteCall("sh_transfer_function", <<0, el, cx>>,
                Site1D_shtf(site_model, site_mean, site_freq, 0, el, cx))

NextSite ==
    \/ FrequencyAxis
    \/ TraveltimeVelocity
    \/ ComputeSoilClass
    \/ QuarterWavelengthAverage
    \/ QuarterWavelengthAmplification
    \/ SiteComputeSiteKappa
    \/ AttenuationDecay
    \/ SiteShTransferFunction

SpecSite == InitSite /\ [][NextSite]_vars

----------------------------------------------------------------------------
(* C26: when quarter_wavelength_amplification is called without reference  *)
(* velocity and density, the call of impedance_amplification for every     *)
(* model of the site gets the velocity and the density of the last layer   *)
(* of that same model as reference.                                        *)
C26_OwnLastLayerIsReference ==
    (/\ site_call.op = "quarter_wavelength_amplification"
     /\ is_empty(site_call.args[1])
     /\ is_empty(site_call.args[2])) =>
        \A i \in 1..Len(site_call.calls) :
           /\ site_call.calls[i].ref_vs = Scalar(Last(site_pre[i].geo.vs))
           /\ site_call.calls[i].ref_dn = Scalar(Last(site_pre[i].geo.dn))

----------------------------------------------------------------------------
(* Prerequisites of the computations of a site.                            *)

FrequencyMethods ==
    {"quarter_wavelength_average", "attenuation_decay",
     "sh_transfer_function"}

AveragingMethods == {"traveltime_velocity", "compute_site_kappa"}

NoLayers(m) == \A K \in GeoKeys : Len(m.geo[K]) = 0

(* the depths at which an entry holds a velocity *)
HoldsVsz(entry) == entry.kind = "dict" /\ Len(entry.v) > 0

(* C24: a method of Site1D that needs the frequency axis, called before    *)
(* the axis exists, raises ValueError and leaves every model as it was;    *)
(* compute_soil_class without Vs30 reports that Vs30 must be calculated    *)
(* first and stores no class where Vs30 is missing (nowhere, when the mean *)
(* model has none); averaging or kappa on a site with a model without      *)
(* layers raises, and that model gets no velocity and no kappa.            *)
C24_PrerequisiteMissingFails ==
    /\ (site_call.op \in FrequencyMethods /\ site_freq = <<>>) =>
          /\ site_call.raised = "ValueError"
          /\ site_model = site_pre
    /\ (site_call.op = "compute_soil_class"
        /\ (~DictHas(site_mean.eng.vsz, 30)
            \/ \E i \in 1..Len(site_pre) :
                  ~DictHas(site_pre[i].eng.vsz, 30))) =>
          /\ site_call.printed = <<Vs30First>>
          /\ ~DictHas(site_mean.eng.vsz, 30) => site_model = site_pre
          /\ \A i \in 1..Len(site_pre) :
                ~DictHas(site_pre[i].eng.vsz, 30) =>
                    site_model[i].eng.class = site_pre[i].eng.class
    /\ (site_call.op \in AveragingMethods
        /\ \E i \in 1..Len(site_pre) : NoLayers(site_pre[i])) =>
          /\ site_call.raised # NoError
          /\ \A i \in 1..Len(site_pre) :
                NoLayers(site_pre[i]) =>
                   /\ ~HoldsVsz(site_model[i].eng.vsz)
                   /\ site_model[i].eng.kappa = site_pre[i].eng.kappa

(* quarter_wavelength_average called on a site of two models before        *)
(* frequency_axis                                                          *)
C24_Witness ==
    /\ site_call.op = "quarter_wavelength_average"
    /\ site_freq = <<>>
    /\ site_call.raised = "ValueError"
    /\ Len(site_pre) = 2
    /\ ~NoLayers(site_pre[1])

----------------------------------------------------------------------------
(* The objects of a call.  The heap is the sequence of the objects that    *)
(* exist; an object is [dtype, mutable, v]: numpy arrays and lists are     *)
(* mutable, Python and numpy scalars are not.  A name is bound to the      *)
(* position of its object in the heap.                                     *)

Obj(dtype, mutable, v) == [dtype |-> dtype, mutable |-> mutable, v |-> v]

(* a new object: the heap with it, and its position *)
Alloc(h, obj) == [heap |-> Append(h, obj), id |-> Len(h) + 1]

(* amplification.py line 131 *)
CTP == "complex128"

(* the values of an array recast to complex *)
ToComplex(v) == [l \in 1..Len(v) |-> CNum(v[l])]

(* Variant of lines 143-149 without the copy: the name stays bound to the  *)
(* object that was passed in.                                              *)
np_array_alias(h, id, dtype, v) == [heap |-> h, id |-> id]

(* numpy.array(x, dtype=CTP): a new array that holds the values of x *)
np_array_copy(h, id, dtype, v) == Alloc(h, Obj(dtype, TRUE, v))

(* x *= y, x[k] = y: a mutable object is changed where it is, for an       *)
(* immutable one the name is bound to a new object                         *)
InPlace(h, id, dtype, v) ==
    IF h[id].mutable
    THEN [heap |-> [h EXCEPT ![id] = Obj(dtype, TRUE, v)], id |-> id]
    ELSE Alloc(h, Obj(dtype, FALSE, v))

(* what a call leaves: the heap, the objects it returns, the exception *)
Returned(h, ret) == [heap |-> h, ret |-> ret, raised |-> NoError]

Raised(h, exc) == [heap |-> h, ret |-> <<>>, raised |-> exc]

(* a scalar or array argument of impedance_amplification held by an object *)
ArgOf(obj) == [arr |-> obj.mutable, v |-> obj.v]

(* average.py lines 52-67 on the objects hl, sp and z *)
mem_depth_weighted_average(h, hl, sp, z) ==
    With(Alloc(h, Obj("int", FALSE, <<Zero>>)), LAMBDA mean_param :
    With(InPlace(mean_param.heap, mean_param.id, "float64",
                 <<depth_weighted_average(h[hl].v, h[sp].v, h[z].v[1])>>),
         LAMBDA mean :
         Returned(mean.heap, <<mean.id>>)))

(* average.py lines 92-100 *)
mem_traveltime_average_velocity(h, hl, vs, z) ==
    With(Alloc(h, Obj("float64", TRUE, Slowness(h[vs].v))), LAMBDA slowness :
    With(mem_depth_weighted_average(slowness.heap, hl, slowness.id, z),
         LAMBDA mean_slowness :
    With(Alloc(mean_slowness.heap,
               Obj("float64", FALSE,
                   <<RDiv(One, mean_slowness.heap[mean_slowness.ret[1]].v[1])>>)),
         LAMBDA mean_velocity :
         Returned(mean_velocity.heap, <<mean_velocity.id>>))))

(* average.py lines 128-137 *)
mem_compute_site_kappa(h, hl, vs, qs, dp) ==
    With(IF NotDepth(h[dp].v)
         THEN Alloc(h, Obj("float64", FALSE, <<SumSeq(h[hl].v)>>))
         ELSE [heap |-> h, id |-> dp], LAMBDA depth_ :
    With(Alloc(depth_.heap,
               Obj("float64", TRUE,
                   LayerKappa(h[vs].v, h[qs].v, depth_.heap[depth_.id].v[1]))),
         LAMBDA layer_kappa :
         mem_depth_weighted_average(layer_kappa.heap, hl, layer_kappa.id,
                                    depth_.id)))

(* s with its element number k replaced by x *)
SetItem(sq, k, x) ==
    np_array([i \in 1..Len(sq) |-> IF i = k THEN x ELSE sq[i]])

(* average.py lines 169-185 from frequency nf on: every result of the      *)
(* searches                                                                *)
RECURSIVE mem_qwl_loop(_, _, _, _, _, _, _)
mem_qwl_loop(h, hl, slowness, freq, qwl_d, qwl_v, nf) ==
    IF nf > Len(h[freq].v) THEN { Returned(h, <<qwl_d, qwl_v>>) }
    ELSE With(Alloc(h, Obj("float64", FALSE,
                           <<qwl_upper_bound(h[slowness].v, h[freq].v[nf])>>)),
              LAMBDA ubnd :
         UNION {
            IF out.raised # NoError THEN { Raised(ubnd.heap, out.raised) }
            ELSE With(InPlace(ubnd.heap, qwl_d, "float64",
                              SetItem(ubnd.heap[qwl_d].v, nf, out.x)),
                      LAMBDA d :
                 With(InPlace(d.heap, qwl_v, "float64",
                              SetItem(d.heap[qwl_v].v, nf,
                                      qwl_velocity_at(h[hl].v, h[slowness].v,
                                                      out.x))),
                      LAMBDA v :
                      mem_qwl_loop(v.heap, hl, slowness, freq, qwl_d, qwl_v,
                                   nf + 1))) :
            out \in fminbound(ubnd.heap[ubnd.id].v[1]) })

(* average.py lines 164-185 *)
mem_quarter_wavelength_velocity(h, hl, vs, freq) ==
    With(Alloc(h, Obj("float64", TRUE, Slowness(h[vs].v))), LAMBDA slowness :
    With(Alloc(slowness.heap,
               Obj("float64", TRUE,
                   np_array([k \in 1..Len(h[freq].v) |-> Zero]))),
         LAMBDA qwl_d :
    With(Alloc(qwl_d.heap,
               Obj("float64", TRUE,
                   np_array([k \in 1..Len(h[freq].v) |-> Zero]))),
         LAMBDA qwl_v :
         mem_qwl_loop(qwl_v.heap, hl, slowness.id, freq, qwl_d.id, qwl_v.id,
                      1))))

(* amplification.py lines 66-69: the object a reference name is bound to *)
mem_default_ref(h, ref, top) ==
    IF np_sum(ArgOf(h[ref])) = 0
    THEN IF np_size(ArgOf(h[top])) > 1
         THEN Alloc(h, Obj("float64", FALSE, <<Last(h[top].v)>>))
         ELSE [heap |-> h, id |-> top]
    ELSE [heap |-> h, id |-> ref]

(* amplification.py lines 64-86 *)
mem_impedance_amplification(h, tvs, tdn, rvs, rdn, ang) ==
    With(mem_default_ref(h, rvs, tvs), LAMBDA ref_vs_ :
    With(mem_default_ref(ref_vs_.heap, rdn, tdn), LAMBDA ref_dn_ :
    With(Alloc(ref_dn_.heap,
               Obj("float64",
                   h[tvs].mutable \/ h[tdn].mutable \/ h[rvs].mutable
                       \/ h[rdn].mutable,
                   impedance_amplification(ArgOf(h[tvs]), ArgOf(h[tdn]),
                       ArgOf(h[rvs]), ArgOf(h[rdn]), 0).v)),
         LAMBDA imp :
         IF h[ang].v[1] > 0
         THEN With(InPlace(imp.heap, ang, "float64",
                           <<Ang(h[ang].v[1], "pi/180")>>), LAMBDA inc :
              With(InPlace(inc.heap, imp.id, "float64",
                           impedance_amplification(ArgOf(h[tvs]),
                               ArgOf(h[tdn]), ArgOf(h[rvs]), ArgOf(h[rdn]),
                               h[ang].v[1]).v), LAMBDA out :
                   Returned(out.heap, <<out.id>>)))
         ELSE Returned(imp.heap, <<imp.id>>))))

(* amplification.py lines 133-276 with inc_ang=0.; qs and depth are 0 when *)
(* the argument is left out                                                *)
mem_sh_transfer_function(h, freq, hl, vs, dn, qs, depth_) ==
    With(sh_transfer_function(Array(h[freq].v), h[hl].v, h[vs].v, h[dn].v,
                              IF qs = 0 THEN NoQs ELSE h[qs].v, 0,
                              IF depth_ = 0 THEN Scalar(0)
                              ELSE Scalar(h[depth_].v[1])), LAMBDA st :
    With(np_array_copy(h, hl, CTP, ToComplex(h[hl].v)), LAMBDA hl_ :
    With(np_array_copy(hl_.heap, vs, CTP, ToComplex(h[vs].v)), LAMBDA vs_ :
    With(np_array_copy(vs_.heap, dn, CTP, ToComplex(h[dn].v)), LAMBDA dn_ :
    With(IF qs = 0 THEN dn_
         ELSE With(np_array_copy(dn_.heap, qs, CTP, ToComplex(h[qs].v)),
                   LAMBDA qs_ :
                   InPlace(qs_.heap, vs_.id, CTP,
                           ComplexVs(h[vs].v, h[qs].v))), LAMBDA scaled :
    With(Alloc(scaled.heap, Obj("float64", TRUE, <<>>)), LAMBDA dis0 :
    With(InPlace(dis0.heap, dis0.id, "float64", st.DisMat), LAMBDA DisMat_ :
         Returned(DisMat_.heap, <<DisMat_.id>>))))))))

----------------------------------------------------------------------------
(* One call of a core function on arrays that the caller holds.            *)

ThicknessId == 1
SoilParamId == 2
VelocityId == 3
QualityId == 4
DensityId == 5
FrequencyId == 6
DepthId == 7
AngleId == 8
RefVsId == 9
RefDnId == 10

MemProfiles ==
    { [hl |-> <<5, 10, 0>>, sp |-> <<Num(5), Num(10), Num(50)>>,
       vs |-> <<200, 100, 200>>, qs |-> <<1, 1, 1>>, dn |-> <<1, 1, 1>>],
      [hl |-> <<10, 0>>, sp |-> <<Num(7), Num(100)>>,
       vs |-> <<100, 200>>, qs |-> <<1, 1>>, dn |-> <<1, 1>>] }

MemFrequencies == { <<0>>, <<10>>, <<0, 10>> }

MemHeap(p, f, dp, ang, ref) ==
    << Obj("float64", TRUE, p.hl), Obj("float64", TRUE, p.sp),
       Obj("float64", TRUE, p.vs), Obj("float64", TRUE, p.qs),
       Obj("float64", TRUE, p.dn), Obj("float64", TRUE, f),
       IF dp = NoDepth THEN Obj("list", TRUE, <<>>)
       ELSE Obj("float", FALSE, dp),
       Obj("float", FALSE, <<ang>>),
       IF ref THEN Obj("float", FALSE, <<200>>) ELSE Obj("list", TRUE, <<>>),
       IF ref THEN Obj("float", FALSE, <<2>>) ELSE Obj("list", TRUE, <<>>) >>

MemInputs ==
    /\ call = "none"
    /\ \E p \in MemProfiles, f \in MemFrequencies, dp \in {NoDepth, <<5>>},
          ang \in {0, 30}, ref \in BOOLEAN :
          heap = MemHeap(p, f, dp, ang, ref)
    /\ heap_pre = heap
    /\ mem_args = <<>>
    /\ mem_ret = <<>>
    /\ mem_call = "none"

InitMem ==
    MemInputs /\ AvgIdle /\ AmpIdle /\ TfIdle /\ QwlIdle /\ LayerIdle
    /\ SiteIdle

(* the function name called on the objects args has left out *)
MemCall(name, args, out) ==
    /\ mem_call = "none"
    /\ mem_call' = name
    /\ mem_args' = args
    /\ heap_pre' = heap
    /\ heap' = out.heap
    /\ mem_ret' = out.ret
    /\ call' = name
    /\ UNCHANGED <<avgVars, ampVars, tfVars, qwlVars, layerVars, siteVars>>

MemDepthWeightedAverage ==
    /\ heap[DepthId].v # <<>>
    /\ MemCall("depth_weighted_average",
               <<ThicknessId, SoilParamId, DepthId>>,
               mem_depth_weighted_average(heap, ThicknessId, SoilParamId,
                                          DepthId))

(* without a depth the default 30 of the function is its depth *)
MemTraveltimeAverageVelocity ==
    IF heap[DepthId].v # <<>>
    THEN MemCall("traveltime_average_velocity",
                 <<ThicknessId, VelocityId, DepthId>>,
                 mem_traveltime_average_velocity(heap, ThicknessId,
                                                 VelocityId, DepthId))
    ELSE With(Alloc(heap, Obj("int", FALSE, <<DefaultVsDepth>>)), LAMBDA d :
         With(mem_traveltime_average_velocity(d.heap, ThicknessId,
                                              VelocityId, d.id), LAMBDA out :
              MemCall("traveltime_average_velocity",
                      <<ThicknessId, VelocityId>>, out)))

MemComputeSiteKappa ==
    MemCall("compute_site_kappa",
            <<ThicknessId, VelocityId, QualityId, DepthId>>,
            mem_compute_site_kappa(heap, ThicknessId, VelocityId, QualityId,
                                   DepthId))

MemQuarterWavelengthVelocity ==
    \E out \in mem_quarter_wavelength_velocity(heap, ThicknessId, VelocityId,
                                               FrequencyId) :
       MemCall("quarter_wavelength_velocity",
               <<ThicknessId, VelocityId, FrequencyId>>, out)

MemImpedanceAmplification ==
    MemCall("impedance_amplification",
            <<VelocityId, DensityId, RefVsId, RefDnId, AngleId>>,
            mem_impedance_amplification(heap, VelocityId, DensityId, RefVsId,
                                        RefDnId, AngleId))

(* the quality factors are passed at zero frequency, where the transfer    *)
(* function with complex velocities is exact                               *)
MemShTransferFunction ==
    \E with_qs \in BOOLEAN, with_depth \in BOOLEAN :
       /\ with_qs => \A k \in 1..Len(heap[FrequencyId].v) :
                        heap[FrequencyId].v[k] = 0
       /\ with_depth => heap[DepthId].v # <<>>
       /\ MemCall("sh_transfer_function",
                  <<FrequencyId, ThicknessId, VelocityId, DensityId>>
                     \o (IF with_qs THEN <<QualityId>> ELSE <<>>)
                     \o (IF with_depth THEN <<DepthId>> ELSE <<>>),
                  mem_sh_transfer_function(heap, FrequencyId, ThicknessId,
                      VelocityId, DensityId,
                      IF with_qs THEN QualityId ELSE 0,
                      IF with_depth THEN DepthId ELSE 0))

NextMem ==
    \/ MemDepthWeightedAverage
    \/ MemTraveltimeAverageVelocity
    \/ MemComputeSiteKappa
    \/ MemQuarterWavelengthVelocity
    \/ MemImpedanceAmplification
    \/ MemShTransferFunction

SpecMem == InitMem /\ [][NextMem]_vars

----------------------------------------------------------------------------
(* two objects of one type that hold the same *)
SameObject(a, b) == a.dtype = b.dtype /\ a.mutable = b.mutable /\ a.v = b.v

(* C25: after a call of a core function every object the caller held       *)
(* before the call, the arguments among them, holds what it held before,   *)
(* and every object returned was made during the call: it is none of the   *)
(* caller's objects.                                                       *)
C25_InputsUnchangedResultFresh ==
    mem_call # "none" =>
        /\ \A id \in 1..Len(heap_pre) : SameObject(heap[id], heap_pre[id])
        /\ \A r \in 1..Len(mem_ret) :
              /\ mem_ret[r] > Len(heap_pre)
              /\ \A k \in 1..Len(mem_args) : mem_ret[r] # mem_args[k]

(* sh_transfer_function with quality factors: an array made by the call    *)
(* holds the complex velocities, and the matrix is returned                *)
C25_Witness ==
    /\ mem_call = "sh_transfer_function"
    /\ \E k \in 1..Len(mem_args) : mem_args[k] = QualityId
    /\ Len(mem_ret) = 1
    /\ \E id \in (Len(heap_pre) + 1)..Len(heap) :
          /\ heap[id].dtype = CTP
          /\ heap[id].v = ComplexVs(heap[VelocityId].v, heap[QualityId].v)

====
